---- MODULE Spec2Model ----
(***************************************************************************)
(* registrar-pricelist: a model of the cache/TTL wrapper of the registrar  *)
(* adapters, the batch drivers, the request logging of the Namecheap       *)
(* adapter, the unification engine (with and without currencies), the      *)
(* sheet header search and row parsing, the price and pricing parsers,     *)
(* the generator runs, fetchWithRetry and convertLegacyDataset.            *)
(***************************************************************************)
EXTENDS Integers, Sequences, FiniteSets, TLC

VARIABLES
  \* ---- XRegistrar.getPricelist and its PersistentCache ----
  now,          \* the wall clock, Date.now()
  cacheFile,    \* the content of <cacheDir>/<key>.json
  pc,           \* position of the current getPricelist call
  callTtl,      \* the ttl argument of the current call
  cached,       \* what cache.read() returned to the current call
  fileAtCall,   \* the cache file as it was when the call started
  nowAtCall,    \* Date.now() when the call started
  raw, parsed, mapped,   \* the values handed from stage to stage
  result,       \* the pricelist the call resolved with
  outcome,      \* "none" | "cached" | "fresh" | "error"
  errStage,     \* the stage whose error the call rejected with
  nFetch, nParse, nMap, nWrite,  \* stage runs of the current call
  \* ---- generatePricelists and the CLI's generator loop ----
  driver,       \* "none" | "generatePricelists" | "cli"
  ids,          \* the registrar ids of the batch, in order
  srcOk,        \* per registrar: its source yields a pricelist
  configured,   \* per registrar: it is enabled / has its credentials
  taskState,    \* per registrar: "unstarted" | "pending" | "fulfilled" | "rejected"
  batchState,   \* "idle" | "running" | "resolved" | "rejected"
  produced,     \* the registrars whose pricelist the batch handed out
  reported,     \* the registrars whose failure the batch reported
  cliIndex,     \* position of the CLI loop in ids
  \* ---- NamecheapRegistrar.fetch, fetchXml and fetchWithRetry ----
  creds,        \* the adapter's apiUser, apiKey, username and clientIp
  reqIndex,     \* the request of fetch() being made (index into Requests)
  attempt,      \* fetchWithRetry's attempt counter
  fpc,          \* "idle" | "attempt" | "backoff" | "failed"
  logged,       \* the entries handed to the adapter's logger
  \* ---- generateUnifiedList and generateCheapestOpRows ----
  results,      \* resultsByRegistrar: provider results in insertion order
  providers,    \* the providers argument (empty: all of results)
  upc,          \* "ready" | "built"
  unified,      \* generateUnifiedList's return value
  metrics,      \* the (regular map, metric) pairs cheapestMetric was asked for
  createRows, renewRows, transferRows,  \* generateCheapestOpRows per operation
  \* ---- header search of the OpenProvider sheet ----
  sheet,        \* the parsed CSV records
  impl,         \* which implementation reads the sheet
  spc,          \* "ready" | "done"
  headerIndex,  \* index (from 0) of the header row found, -1 before and without
  parseError,   \* "none" | "empty" | "headers not found"
  \* ---- parsePrice ----
  priceRaw,     \* the value handed to parsePrice
  ppc,          \* "ready" | "returned"
  priceOut,     \* parsePrice's return value
  \* ---- row loop of the OpenProvider adapter ----
  dataRows,     \* the records after the header row
  rowIdx,       \* how many of them the loop has taken
  parsedData,   \* parsed.data: tld -> maxYears, regular, member
  emittedYear1, \* the counter of year-1 rows
  rpc,          \* "rows" | "parsed" | "mapped"
  items,        \* the items of the pricelist map returns
  \* ---- pricing of the Namecheap adapters ----
  ncImpl,       \* "registrar" (NamecheapRegistrar) | "generator" (namecheapGenerator)
  ncResponses,  \* action -> the Price elements of its getPricing response
  ncMeta,       \* tld -> metadata of getTldList
  ncIdx,        \* how many actions have been processed
  ncRegular,    \* the merged regular map: tld -> operation -> price
  ncSale,       \* the merged sale map
  ncpc,         \* "pricing" | "merged" | "done"
  ncOut,        \* the TLDs of the output: tld -> maxYears, regular, sale
  \* ---- the NIRA adapters ----
  niraImpl,     \* "registrar" (NiraRegistrar) | "generator" | "generatorNgn" (niraGenerator)
  niraRate,     \* the rate found in the FX data, a JavaScript value
  ngnPerUsd,    \* the rate parse returns
  niraPc,       \* "fetched" | "parsed" | "done" | "failed"
  niraOut,      \* the prices returned: tld -> operation -> USD
  niraCache,    \* the cache entry written, <<>> when none
  \* ---- runs of the command line over one output directory ----
  runFiles,     \* registrar -> the content of <outDir>/<registrarId>-prices.json
  runNow,       \* the wall clock
  runTtl,       \* the ttl of the run
  runTask,      \* registrar -> "unselected" | "pending" | "done" | "failed"
  runResults,   \* registrar -> the pricelist its getPricelist returned
  runPc,        \* "idle" | "generating" | "rejected"
  runLast,      \* registrar -> the last CacheEntry getPricelist wrote
  runCount,     \* the runs started
  \* ---- fetchWithRetry under a generator run ----
  fwRetries,    \* the retries option
  fwSignal,     \* TRUE when an abort signal is passed to fetchWithRetry
  fwAborted,    \* the signal is aborted
  fwAbortAt,    \* the request, the place and the fetch calls made at the abort
  fwReq,        \* the request of the run fetchWithRetry is called for
  fwAttempt,    \* the loop variable attempt
  fwPc,         \* "call" | "loop" | "fetch" | "inflight" | "backoff" | "returned" | "rejected"
  fwCalls,      \* the outcomes of the fetch calls of this fetchWithRetry, in order
  fwLastErr,    \* lastErr
  fwSettled,    \* what fetchWithRetry returned or threw
  fwRun,        \* the generator run: "running" | "returned" | "failed"
  \* ---- convertLegacyDataset ----
  lgData,       \* Object.entries(dataset.data): the TLDs and their legacy entries
  lgIdx,        \* the entries converted so far
  lgItems,      \* items
  lgPc,         \* "entries" | "returned"
  \* ---- the unification engine with currencies ----
  mcResults,    \* resultsByRegistrar: the results in insertion order
  mcProviders,  \* the providers argument, <<>> when absent
  mcPc,         \* "ready" | "built"
  mcUnified,    \* what generateUnifiedList returned
  mcCreateRows, \* what generateCheapestOpRows returned for 'create'
  mcRenewRows   \* what generateCheapestOpRows returned for 'renew'

cacheVars == <<now, cacheFile, pc, callTtl, cached, fileAtCall, nowAtCall,
               raw, parsed, mapped, result, outcome, errStage,
               nFetch, nParse, nMap, nWrite>>

batchVars == <<driver, ids, srcOk, configured, taskState, batchState,
               produced, reported, cliIndex>>

logVars == <<creds, reqIndex, attempt, fpc, logged>>

unifyVars == <<results, providers, upc, unified, metrics,
               createRows, renewRows, transferRows>>

sheetVars == <<sheet, impl, spc, headerIndex, parseError>>

priceVars == <<priceRaw, ppc, priceOut>>

rowVars == <<dataRows, rowIdx, parsedData, emittedYear1, rpc, items>>

ncVars == <<ncImpl, ncResponses, ncMeta, ncIdx, ncRegular, ncSale, ncpc, ncOut>>
niraVars == <<niraImpl, niraRate, ngnPerUsd, niraPc, niraOut, niraCache>>
runVars == <<runFiles, runNow, runTtl, runTask, runResults, runPc, runLast, runCount>>
fwVars == <<fwRetries, fwSignal, fwAborted, fwAbortAt, fwReq, fwAttempt, fwPc, fwCalls, fwLastErr, fwSettled, fwRun>>
legacyVars == <<lgData, lgIdx, lgItems, lgPc>>
currencyVars == <<mcResults, mcProviders, mcPc, mcUnified, mcCreateRows, mcRenewRows>>

vars == <<cacheVars, batchVars, logVars, unifyVars, sheetVars, priceVars, rowVars, ncVars, niraVars, runVars, fwVars, legacyVars, currencyVars>>

-----------------------------------------------------------------------------
\* Bounds of the model.
MaxTime == 3      \* the clock runs from 0 to MaxTime
MaxTtl == 2       \* finite ttl arguments range over -1 .. MaxTtl

-----------------------------------------------------------------------------
(***************************************************************************)
(* XRegistrar.getPricelist                                                 *)
(***************************************************************************)

\* The upstream data a fetch can return.
Data == {1, 2}

\* ttl is a JavaScript number: +Infinity, -Infinity, NaN or a finite number.
TtlInfinity == [kind |-> "inf", n |-> 0]
TtlNegInfinity == [kind |-> "ninf", n |-> 0]
TtlNaN == [kind |-> "nan", n |-> 0]
TtlNum(n) == [kind |-> "num", n |-> n]
Ttls == {TtlInfinity, TtlNegInfinity, TtlNaN} \cup {TtlNum(n) : n \in -1..MaxTtl}

\* A RegistrarPricelist, reduced to its timestamp and the data it was built from.
NoPricelist == [fetchedAt |-> 0, value |-> 0]
Pricelist(t, v) == [fetchedAt |-> t, value |-> v]

\* The cache file: missing, not readable as JSON, a JSON object without
\* cachedAt, or a CacheEntry {cachedAt, payload}.
FileAbsent == [kind |-> "absent", cachedAt |-> 0, payload |-> NoPricelist]
FileUnreadable == [kind |-> "unreadable", cachedAt |-> 0, payload |-> NoPricelist]
FileNoTimestamp(p) == [kind |-> "noTimestamp", cachedAt |-> 0, payload |-> p]
FileEntry(t, p) == [kind |-> "entry", cachedAt |-> t, payload |-> p]

\* What read returns to a caller that finds no entry: null.
NoEntry == [present |-> FALSE, cachedAt |-> 0, payload |-> NoPricelist]

\* Mutant of CacheRead: an object without cachedAt is returned as an entry.
CacheReadKeepsUntimed(file) ==
  CASE file.kind = "absent" -> [threw |-> FALSE, entry |-> NoEntry]
    [] file.kind = "unreadable" -> [threw |-> TRUE, entry |-> NoEntry]
    [] file.kind \in {"noTimestamp", "entry"} ->
         [threw |-> FALSE,
          entry |-> [present |-> TRUE, cachedAt |-> file.cachedAt, payload |-> file.payload]]

\* Mutant of CacheRead: every read error is answered with null.
CacheReadSwallowsErrors(file) ==
  CASE file.kind \in {"absent", "unreadable", "noTimestamp"} ->
         [threw |-> FALSE, entry |-> NoEntry]
    [] file.kind = "entry" ->
         [threw |-> FALSE,
          entry |-> [present |-> TRUE, cachedAt |-> file.cachedAt, payload |-> file.payload]]

\* PersistentCache.read: null for ENOENT/ENOTDIR and for an object without
\* cachedAt, the parsed entry otherwise; any other error is rethrown.
CacheRead(file) ==
  CASE file.kind = "absent" -> [threw |-> FALSE, entry |-> NoEntry]
    [] file.kind = "unreadable" -> [threw |-> TRUE, entry |-> NoEntry]
    [] file.kind = "noTimestamp" -> [threw |-> FALSE, entry |-> NoEntry]
    [] file.kind = "entry" ->
         [threw |-> FALSE,
          entry |-> [present |-> TRUE, cachedAt |-> file.cachedAt, payload |-> file.payload]]

\* PersistentCache.write: the whole file is replaced by the entry.
CacheWrite(entry) == FileEntry(entry.cachedAt, entry.payload)

\* XRegistrar.touch: the pricelist with fetchedAt set to the current time.
Touch(pricelist, t) == [pricelist EXCEPT !.fetchedAt = t]

\* Mutant of AgeWithin: the age test made strict.
AgeWithinStrict(nowMs, cachedAt, ttl) == (nowMs - cachedAt) < ttl

\* The age test of the finite-ttl branch.
AgeWithin(nowMs, cachedAt, ttl) == (nowMs - cachedAt) <= ttl

\* Mutant of ShouldReuse: the Infinity branch applies a staleness check.
ShouldReuseStaleInfinity(ttl, entry, nowMs) ==
  IF ttl.kind = "inf"
    THEN entry.present /\ AgeWithin(nowMs, entry.cachedAt, MaxTtl)
    ELSE IF ttl.kind = "num" /\ ttl.n > 0
      THEN entry.present /\ AgeWithin(nowMs, entry.cachedAt, ttl.n)
      ELSE ~(ttl.kind = "num" /\ ttl.n = 0) /\ entry.present

\* Mutant of ShouldReuse: the last branch checks the entry's age against 0.
ShouldReuseFreshOnly(ttl, entry, nowMs) ==
  IF ttl.kind = "inf"
    THEN entry.present
    ELSE IF ttl.kind = "num" /\ ttl.n > 0
      THEN entry.present /\ AgeWithin(nowMs, entry.cachedAt, ttl.n)
      ELSE ~(ttl.kind = "num" /\ ttl.n = 0) /\ entry.present
             /\ AgeWithin(nowMs, entry.cachedAt, 0)

\* The three-way branch of getPricelist on ttl: TRUE when the call returns
\* cached.payload without running the pipeline.
ShouldReuse(ttl, entry, nowMs) ==
  IF ttl.kind = "inf"
    THEN entry.present
    ELSE IF ttl.kind = "num" /\ ttl.n > 0
      THEN entry.present /\ AgeWithin(nowMs, entry.cachedAt, ttl.n)
      ELSE ~(ttl.kind = "num" /\ ttl.n = 0) /\ entry.present

\* getPricelist up to its first pipeline await: read the cache, branch on ttl.
GetPricelist(ttl) ==
  /\ pc \in {"idle", "done"}
  /\ LET r == CacheRead(cacheFile) IN
       /\ callTtl' = ttl
       /\ fileAtCall' = cacheFile
       /\ nowAtCall' = now
       /\ cached' = r.entry
       /\ nFetch' = 0 /\ nParse' = 0 /\ nMap' = 0 /\ nWrite' = 0
       /\ raw' = 0 /\ parsed' = NoPricelist /\ mapped' = NoPricelist
       /\ IF r.threw
            THEN /\ pc' = "done" /\ outcome' = "error" /\ errStage' = "read"
                 /\ result' = NoPricelist
            ELSE IF ShouldReuse(ttl, r.entry, now)
              THEN /\ pc' = "done" /\ outcome' = "cached" /\ errStage' = "none"
                   /\ result' = r.entry.payload
              ELSE /\ pc' = "fetch" /\ outcome' = "none" /\ errStage' = "none"
                   /\ result' = NoPricelist
  /\ UNCHANGED <<now, cacheFile>>
  /\ UNCHANGED <<batchVars, logVars, unifyVars, sheetVars, priceVars, rowVars, ncVars, niraVars, runVars, fwVars, legacyVars, currencyVars>>

\* Mutant of Reject: the call rejects with the error of the fetch stage.
RejectAsFetch(stage) ==
  /\ pc' = "done" /\ outcome' = "error" /\ errStage' = "fetch"
  /\ result' = NoPricelist

\* A stage that throws rejects the call; nothing after it runs.
Reject(stage) ==
  /\ pc' = "done" /\ outcome' = "error" /\ errStage' = stage
  /\ result' = NoPricelist

\* const raw = await this.fetch()
Fetch ==
  /\ pc = "fetch"
  /\ nFetch' = nFetch + 1
  /\ \E ok \in BOOLEAN, d \in Data :
       IF ok
         THEN /\ raw' = d /\ pc' = "parse"
              /\ UNCHANGED <<outcome, errStage, result>>
         ELSE /\ Reject("fetch") /\ UNCHANGED raw
  /\ UNCHANGED <<now, cacheFile, callTtl, cached, fileAtCall, nowAtCall,
                 parsed, mapped, nParse, nMap, nWrite>>
  /\ UNCHANGED <<batchVars, logVars, unifyVars, sheetVars, priceVars, rowVars, ncVars, niraVars, runVars, fwVars, legacyVars, currencyVars>>

\* const parsed = await this.parse(raw)
Parse ==
  /\ pc = "parse"
  /\ nParse' = nParse + 1
  /\ \E ok \in BOOLEAN :
       IF ok
         THEN /\ parsed' = Pricelist(now, raw) /\ pc' = "map"
              /\ UNCHANGED <<outcome, errStage, result>>
         ELSE /\ Reject("parse") /\ UNCHANGED parsed
  /\ UNCHANGED <<now, cacheFile, callTtl, cached, fileAtCall, nowAtCall,
                 raw, mapped, nFetch, nMap, nWrite>>
  /\ UNCHANGED <<batchVars, logVars, unifyVars, sheetVars, priceVars, rowVars, ncVars, niraVars, runVars, fwVars, legacyVars, currencyVars>>

\* const mapped = this.touch(await this.map(parsed))
Map ==
  /\ pc = "map"
  /\ nMap' = nMap + 1
  /\ \E ok \in BOOLEAN :
       IF ok
         THEN /\ mapped' = Touch(parsed, now) /\ pc' = "write"
              /\ UNCHANGED <<outcome, errStage, result>>
         ELSE /\ Reject("map") /\ UNCHANGED mapped
  /\ UNCHANGED <<now, cacheFile, callTtl, cached, fileAtCall, nowAtCall,
                 raw, parsed, nFetch, nParse, nWrite>>
  /\ UNCHANGED <<batchVars, logVars, unifyVars, sheetVars, priceVars, rowVars, ncVars, niraVars, runVars, fwVars, legacyVars, currencyVars>>

\* await this.cache.write({cachedAt: mapped.fetchedAt, payload: mapped}); return mapped
Write ==
  /\ pc = "write"
  /\ nWrite' = nWrite + 1
  /\ cacheFile' = CacheWrite([cachedAt |-> mapped.fetchedAt, payload |-> mapped])
  /\ result' = mapped
  /\ pc' = "done" /\ outcome' = "fresh"
  /\ UNCHANGED <<now, callTtl, cached, fileAtCall, nowAtCall, raw, parsed, mapped,
                 errStage, nFetch, nParse, nMap>>
  /\ UNCHANGED <<batchVars, logVars, unifyVars, sheetVars, priceVars, rowVars, ncVars, niraVars, runVars, fwVars, legacyVars, currencyVars>>

\* Time passes.
Tick ==
  /\ now < MaxTime
  /\ now' = now + 1
  /\ UNCHANGED <<cacheFile, pc, callTtl, cached, fileAtCall, nowAtCall,
                 raw, parsed, mapped, result, outcome, errStage,
                 nFetch, nParse, nMap, nWrite>>
  /\ UNCHANGED <<batchVars, logVars, unifyVars, sheetVars, priceVars, rowVars, ncVars, niraVars, runVars, fwVars, legacyVars, currencyVars>>

\* The files a run can find in its cache directory at start.
InitialFiles ==
  {FileAbsent, FileUnreadable}
    \cup {FileNoTimestamp(Pricelist(0, d)) : d \in Data}
    \cup {FileEntry(0, Pricelist(0, d)) : d \in Data}

CacheInit ==
  /\ now = 0
  /\ cacheFile \in InitialFiles
  /\ pc = "idle"
  /\ callTtl = TtlInfinity
  /\ cached = NoEntry
  /\ fileAtCall = FileAbsent
  /\ nowAtCall = 0
  /\ raw = 0 /\ parsed = NoPricelist /\ mapped = NoPricelist
  /\ result = NoPricelist
  /\ outcome = "none" /\ errStage = "none"
  /\ nFetch = 0 /\ nParse = 0 /\ nMap = 0 /\ nWrite = 0

\* The batch drivers at rest.
BatchIdle ==
  /\ driver = "none"
  /\ ids = <<>>
  /\ srcOk = [r \in {} |-> TRUE]
  /\ configured = [r \in {} |-> TRUE]
  /\ taskState = [r \in {} |-> "unstarted"]
  /\ batchState = "idle"
  /\ produced = {}
  /\ reported = {}
  /\ cliIndex = 0

\* The cache wrapper at rest, for the specifications of the other components.
CacheIdle == CacheInit /\ cacheFile = FileAbsent

\* The Namecheap adapter before any request.
NoCreds == [ApiUser |-> <<>>, ApiKey |-> <<>>, UserName |-> <<>>, ClientIp |-> <<>>]
LogIdle ==
  /\ creds = NoCreds
  /\ reqIndex = 1
  /\ attempt = 0
  /\ fpc = "idle"
  /\ logged = {}

\* The unification engine before any input.
UnifyIdle ==
  /\ results = <<>>
  /\ providers = <<>>
  /\ upc = "ready"
  /\ unified = <<>>
  /\ metrics = {}
  /\ createRows = <<>> /\ renewRows = <<>> /\ transferRows = <<>>

\* No sheet has been read.
SheetIdle ==
  /\ sheet = <<>>
  /\ impl = "none"
  /\ spc = "ready"
  /\ headerIndex = 0 - 1
  /\ parseError = "none"

\* parsePrice has not been called.
PriceIdle ==
  /\ priceRaw = [defined |-> FALSE, text |-> <<>>]
  /\ ppc = "ready"
  /\ priceOut = [kind |-> "null", n |-> 0]

\* No sheet rows to process.
RowIdle ==
  /\ dataRows = <<>>
  /\ rowIdx = 0
  /\ parsedData = <<>>
  /\ emittedYear1 = 0
  /\ rpc = "rows"
  /\ items = <<>>

\* No Namecheap response to parse.
NcIdle ==
  /\ ncImpl = "none"
  /\ ncResponses = <<>>
  /\ ncMeta = <<>>
  /\ ncIdx = 0
  /\ ncRegular = <<>>
  /\ ncSale = <<>>
  /\ ncpc = "pricing"
  /\ ncOut = <<>>

\* No NIRA run.
NiraIdle ==
  /\ niraImpl = "none"
  /\ niraRate = <<>>
  /\ ngnPerUsd = 0
  /\ niraPc = "fetched"
  /\ niraOut = <<>>
  /\ niraCache = <<>>

\* The command line not run.
RunIdle ==
  /\ runFiles = <<>>
  /\ runNow = 0
  /\ runTtl = TtlInfinity
  /\ runTask = <<>>
  /\ runResults = <<>>
  /\ runPc = "idle"
  /\ runLast = <<>>
  /\ runCount = 0

\* No fetchWithRetry call.
FwIdle ==
  /\ fwRetries = 0
  /\ fwSignal = FALSE
  /\ fwAborted = FALSE
  /\ fwAbortAt = <<>>
  /\ fwReq = 0
  /\ fwAttempt = 0
  /\ fwPc = "call"
  /\ fwCalls = <<>>
  /\ fwLastErr = <<>>
  /\ fwSettled = <<>>
  /\ fwRun = "running"

\* No legacy dataset under conversion.
LegacyIdle ==
  /\ lgData = <<>>
  /\ lgIdx = 0
  /\ lgItems = <<>>
  /\ lgPc = "entries"

\* The engine with currencies before any input.
CurrencyIdle ==
  /\ mcResults = <<>>
  /\ mcProviders = <<>>
  /\ mcPc = "ready"
  /\ mcUnified = <<>>
  /\ mcCreateRows = <<>>
  /\ mcRenewRows = <<>>

Init == CacheInit /\ BatchIdle /\ LogIdle /\ UnifyIdle /\ SheetIdle /\ PriceIdle /\ RowIdle /\ NcIdle /\ NiraIdle /\ RunIdle /\ FwIdle /\ LegacyIdle /\ CurrencyIdle

Next ==
  \/ \E ttl \in Ttls : GetPricelist(ttl)
  \/ Fetch
  \/ Parse
  \/ Map
  \/ Write
  \/ Tick

Spec == Init /\ [][Next]_vars

-----------------------------------------------------------------------------
(***************************************************************************)
(* generatePricelists (Promise.all over the registrars) and the CLI loop   *)
(***************************************************************************)

\* registrarDefinitions / registrarGenerators
Registrars == {"namecheap", "nira", "openprovider"}

\* The id lists a batch can be asked for: any selection, in any order.
IdLists ==
  {l \in UNION {[1..n -> Registrars] : n \in 1..Cardinality(Registrars)} :
     \A i, j \in DOMAIN l : i # j => l[i] # l[j]}

Range(f) == {f[i] : i \in DOMAIN f}

\* The first element of list l that is in S, as a set of at most one id.
FirstIn(l, S) ==
  {l[i] : i \in {k \in DOMAIN l : l[k] \in S /\ \A m \in 1..(k - 1) : l[m] \notin S}}

\* generatePricelists: ids.map(async id => ...) runs every task up to its
\* first await; a task for an unconfigured registrar has thrown by then.
\* Promise.all rejects with the first rejection it sees.
GeneratePricelistsStart(list) ==
  /\ batchState = "idle"
  /\ driver' = "generatePricelists"
  /\ ids' = list
  /\ taskState' = [r \in Registrars |->
                     IF r \notin Range(list) THEN "unstarted"
                     ELSE IF configured[r] THEN "pending" ELSE "rejected"]
  /\ LET notConfigured == {r \in Registrars : ~configured[r]} IN
       IF \E r \in Range(list) : r \in notConfigured
         THEN /\ batchState' = "rejected"
              /\ reported' = FirstIn(list, notConfigured)
         ELSE /\ batchState' = "running"
              /\ reported' = {}
  /\ produced' = {}
  /\ UNCHANGED <<srcOk, configured, cliIndex>>
  /\ UNCHANGED <<cacheVars, logVars, unifyVars, sheetVars, priceVars, rowVars, ncVars, niraVars, runVars, fwVars, legacyVars, currencyVars>>

\* A task's `await registrar.getPricelist(ttl)` settles; Promise.all reacts:
\* the first rejection rejects the batch, the last fulfilment resolves it
\* with Object.fromEntries(entries).
TaskSettle(r) ==
  /\ driver = "generatePricelists"
  /\ taskState[r] = "pending"
  /\ LET ts == [taskState EXCEPT ![r] = IF srcOk[r] THEN "fulfilled" ELSE "rejected"] IN
       /\ taskState' = ts
       /\ IF batchState # "running"
            THEN UNCHANGED <<batchState, produced, reported>>
            ELSE IF ts[r] = "rejected"
              THEN /\ batchState' = "rejected" /\ reported' = {r}
                   /\ UNCHANGED produced
              ELSE IF \A q \in Range(ids) : ts[q] = "fulfilled"
                THEN /\ batchState' = "resolved" /\ produced' = Range(ids)
                     /\ UNCHANGED reported
                ELSE UNCHANGED <<batchState, produced, reported>>
  /\ UNCHANGED <<driver, ids, srcOk, configured, cliIndex>>
  /\ UNCHANGED <<cacheVars, logVars, unifyVars, sheetVars, priceVars, rowVars, ncVars, niraVars, runVars, fwVars, legacyVars, currencyVars>>

\* cli.js run(): the generators are run one after the other.
CliRunStart(list) ==
  /\ batchState = "idle"
  /\ driver' = "cli"
  /\ ids' = list
  /\ taskState' = [r \in Registrars |-> "unstarted"]
  /\ batchState' = "running"
  /\ cliIndex' = 1
  /\ produced' = {} /\ reported' = {}
  /\ UNCHANGED <<srcOk, configured>>
  /\ UNCHANGED <<cacheVars, logVars, unifyVars, sheetVars, priceVars, rowVars, ncVars, niraVars, runVars, fwVars, legacyVars, currencyVars>>

\* One turn of `for (const generator of generators)`: generate, write the
\* file, record the result; an error leaves the loop and run() rejects, and
\* run().catch prints the message and exits.
CliGenerate ==
  /\ driver = "cli" /\ batchState = "running"
  /\ cliIndex <= Len(ids)
  /\ LET r == ids[cliIndex] IN
       IF configured[r] /\ srcOk[r]
         THEN /\ taskState' = [taskState EXCEPT ![r] = "fulfilled"]
              /\ produced' = produced \cup {r}
              /\ cliIndex' = cliIndex + 1
              /\ batchState' = IF cliIndex = Len(ids) THEN "resolved" ELSE "running"
              /\ UNCHANGED reported
         ELSE /\ taskState' = [taskState EXCEPT ![r] = "rejected"]
              /\ batchState' = "rejected"
              /\ reported' = {r}
              /\ UNCHANGED <<produced, cliIndex>>
  /\ UNCHANGED <<driver, ids, srcOk, configured>>
  /\ UNCHANGED <<cacheVars, logVars, unifyVars, sheetVars, priceVars, rowVars, ncVars, niraVars, runVars, fwVars, legacyVars, currencyVars>>

BatchInit ==
  /\ driver = "none"
  /\ ids = <<>>
  /\ srcOk \in [Registrars -> BOOLEAN]
  /\ configured \in [Registrars -> BOOLEAN]
  /\ taskState = [r \in Registrars |-> "unstarted"]
  /\ batchState = "idle"
  /\ produced = {}
  /\ reported = {}
  /\ cliIndex = 0

BatchNext ==
  \/ \E list \in IdLists : GeneratePricelistsStart(list)
  \/ \E r \in Registrars : TaskSettle(r)
  \/ \E list \in IdLists : CliRunStart(list)
  \/ CliGenerate

InitBatch == CacheIdle /\ BatchInit /\ LogIdle /\ UnifyIdle /\ SheetIdle /\ PriceIdle /\ RowIdle /\ NcIdle /\ NiraIdle /\ RunIdle /\ FwIdle /\ LegacyIdle /\ CurrencyIdle

SpecBatch == InitBatch /\ [][BatchNext]_vars

\* The batch is over: it settled, and no task of it is still running.
BatchOver ==
  /\ batchState \in {"resolved", "rejected"}
  /\ \A r \in Registrars : taskState[r] # "pending"

\* C4: when a registrar of a batch fails with a source-level error (every
\* registrar of the batch being configured), the batch still produces the
\* pricelists of the registrars whose source succeeds, and a failure is
\* reported for failing registrars only.
C4_BatchIsolatesFailures ==
  (BatchOver /\ \A r \in Range(ids) : configured[r]) =>
    /\ produced = {r \in Range(ids) : srcOk[r]}
    /\ reported \subseteq {r \in Range(ids) : ~srcOk[r]}

-----------------------------------------------------------------------------
(***************************************************************************)
(* Request logging of the Namecheap adapter.  Strings are sequences of     *)
(* characters.                                                             *)
(***************************************************************************)

\* fetchXml's `retries: 4`
NamecheapRetries == 4

\* '*'.repeat(n)
Stars(n) == [i \in 1..n |-> "*"]

\* String.prototype.slice(start) and slice(0, end) for an integer argument:
\* a negative start counts from the end, and -0 is 0.
SliceFrom(str, start) ==
  LET from == IF start < 0 THEN (IF Len(str) + start < 0 THEN 0 ELSE Len(str) + start)
              ELSE (IF start > Len(str) THEN Len(str) ELSE start)
  IN SubSeq(str, from + 1, Len(str))
SliceTo(str, end) == SubSeq(str, 1, IF end > Len(str) THEN Len(str) ELSE end)

\* mask(value, keepStart, keepEnd)
Mask(value, keepStart, keepEnd) ==
  IF value = <<>> THEN <<>>
  ELSE IF Len(value) <= keepStart + keepEnd THEN Stars(Len(value))
  ELSE SliceTo(value, keepStart) \o <<"*", "*", "*">> \o SliceFrom(value, 0 - keepEnd)

\* The ClientIp placeholder, 'x.x.x.x'
IpPlaceholder == <<"x", ".", "x", ".", "x", ".", "x">>

\* A request URL, as its query parameters.
\* buildUrl(command, extra)
BuildUrl(c, req) ==
  [ApiUser |-> c.ApiUser, ApiKey |-> c.ApiKey, UserName |-> c.UserName,
   ClientIp |-> c.ClientIp, Command |-> req.Command, ActionName |-> req.ActionName]

\* sanitizeUrl(url)
SanitizeUrl(url) ==
  [url EXCEPT !.ApiKey = Mask(url.ApiKey, 3, 2),
              !.ApiUser = Mask(url.ApiUser, 1, 0),
              !.UserName = Mask(url.UserName, 1, 0),
              !.ClientIp = IpPlaceholder]

\* The requests of NamecheapRegistrar.fetch, in order: the TLD list, then
\* the pricing of each of ACTIONS.
Requests ==
  <<[Command |-> "namecheap.domains.getTldList", ActionName |-> "none"],
    [Command |-> "namecheap.users.getPricing", ActionName |-> "REGISTER"],
    [Command |-> "namecheap.users.getPricing", ActionName |-> "RENEW"],
    [Command |-> "namecheap.users.getPricing", ActionName |-> "TRANSFER"],
    [Command |-> "namecheap.users.getPricing", ActionName |-> "REACTIVATE"]>>

\* fetchXml: build the URL, log it sanitized, call fetchWithRetry.
FetchXml ==
  /\ fpc = "idle"
  /\ reqIndex <= Len(Requests)
  /\ logged' = logged \cup
       {[message |-> "[namecheap] GET", url |-> SanitizeUrl(BuildUrl(creds, Requests[reqIndex]))]}
  /\ attempt' = 0
  /\ fpc' = "attempt"
  /\ UNCHANGED <<creds, reqIndex>>
  /\ UNCHANGED <<cacheVars, batchVars, unifyVars, sheetVars, priceVars, rowVars, ncVars, niraVars, runVars, fwVars, legacyVars, currencyVars>>

\* One turn of fetchWithRetry's loop: fetch(url); an ok response is returned
\* (and fetchXml reads its text); an error or a non-ok status is caught:
\* after the last attempt it is thrown, before that 'Retrying <url>' is
\* logged and the backoff delay starts.
FetchAttempt ==
  /\ fpc = "attempt"
  /\ \E ok \in BOOLEAN :
       IF ok
         THEN /\ fpc' = "idle"
              /\ reqIndex' = reqIndex + 1
              /\ UNCHANGED <<attempt, logged>>
         ELSE IF attempt >= NamecheapRetries
           THEN /\ fpc' = "failed"
                /\ UNCHANGED <<reqIndex, attempt, logged>>
           ELSE /\ logged' = logged \cup
                     {[message |-> "Retrying", url |-> BuildUrl(creds, Requests[reqIndex])]}
                /\ fpc' = "backoff"
                /\ UNCHANGED <<reqIndex, attempt>>
  /\ UNCHANGED creds
  /\ UNCHANGED <<cacheVars, batchVars, unifyVars, sheetVars, priceVars, rowVars, ncVars, niraVars, runVars, fwVars, legacyVars, currencyVars>>

\* The backoff delay elapses: the loop goes to its next attempt.
BackoffElapsed ==
  /\ fpc = "backoff"
  /\ attempt' = attempt + 1
  /\ fpc' = "attempt"
  /\ UNCHANGED <<creds, reqIndex, logged>>
  /\ UNCHANGED <<cacheVars, batchVars, unifyVars, sheetVars, priceVars, rowVars, ncVars, niraVars, runVars, fwVars, legacyVars, currencyVars>>

\* The credentials an adapter can be configured with.
ApiKeys == {<<"k", "e", "y", "1", "2", "3", "4", "5">>, <<"k", "e", "y", "1", "2">>}
ApiUsers == {<<"a", "l", "i", "c", "e">>, <<"a">>}
UserNames == {<<"b", "o", "b">>, <<"b">>}
ClientIps == {<<"1", ".", "2", ".", "3", ".", "4">>}

LogInit ==
  /\ creds \in [ApiUser : ApiUsers, ApiKey : ApiKeys, UserName : UserNames, ClientIp : ClientIps]
  /\ reqIndex = 1
  /\ attempt = 0
  /\ fpc = "idle"
  /\ logged = {}

InitLog == CacheIdle /\ BatchIdle /\ LogInit /\ UnifyIdle /\ SheetIdle /\ PriceIdle /\ RowIdle /\ NcIdle /\ NiraIdle /\ RunIdle /\ FwIdle /\ LegacyIdle /\ CurrencyIdle

LogNext ==
  \/ FetchXml
  \/ FetchAttempt
  \/ BackoffElapsed

SpecLog == InitLog /\ [][LogNext]_vars

\* C5: no logged URL carries the raw ApiKey, ApiUser, UserName or ClientIp:
\* in every log entry, the 'Retrying <url>' entries of fetchWithRetry
\* included, the credential parameters are masked and ClientIp is x.x.x.x.
C5_LoggedUrlsAreSanitized ==
  \A e \in logged :
    /\ e.url.ApiKey # creds.ApiKey
    /\ e.url.ApiUser # creds.ApiUser
    /\ e.url.UserName # creds.UserName
    /\ e.url.ClientIp = IpPlaceholder

\* The masked text of a value as the contract words it: the first keepStart
\* characters, '***', the last keepEnd characters; all '*' for a short value.
MaskedAsStated(value, keepStart, keepEnd) ==
  IF Len(value) > keepStart + keepEnd
  THEN SubSeq(value, 1, keepStart) \o <<"*", "*", "*">>
         \o SubSeq(value, Len(value) - keepEnd + 1, Len(value))
  ELSE [i \in 1..Len(value) |-> "*"]

\* C21: in every URL that sanitizeUrl produced, a credential longer than
\* keepStart + keepEnd is its first keepStart characters, '***' and its last
\* keepEnd characters (ApiKey 3 and 2, ApiUser and UserName 1 and 0, so
\* nothing beyond the first character of those two), and a shorter one is
\* all '*'.
C21_MaskKeepsOnlyEnds ==
  \A e \in logged :
    e.message = "[namecheap] GET" =>
      /\ e.url.ApiKey = MaskedAsStated(creds.ApiKey, 3, 2)
      /\ e.url.ApiUser = MaskedAsStated(creds.ApiUser, 1, 0)
      /\ e.url.UserName = MaskedAsStated(creds.UserName, 1, 0)

-----------------------------------------------------------------------------
(***************************************************************************)
(* The unification engine (generators/unified.js).  Provider ids and TLDs   *)
(* are strings, written as sequences of character codes and compared as     *)
(* JavaScript compares strings; an object is the sequence of its entries   *)
(* in insertion order.                                                     *)
(***************************************************************************)

\* Number.POSITIVE_INFINITY, above every price
PositiveInfinity == 1000000

\* NaN: the value of Number(undefined), kept apart from every finite number
NaN == 0 - 1

\* Number.isFinite
IsFinite(n) == n >= 0 /\ n < PositiveInfinity

\* a < b on strings: the first differing code unit decides, a proper prefix
\* is smaller
StrLess(a, b) ==
  \E k \in 1..Len(b) :
    /\ \A j \in 1..(k - 1) : j <= Len(a) /\ a[j] = b[j]
    /\ (k > Len(a) \/ a[k] < b[k])

\* Object.keys(resultsByRegistrar)
Keys(res) == [i \in 1..Len(res) |-> res[i].provider]

\* options.providers when it is non-empty, every key of the results otherwise
Include(res, provs) == IF Len(provs) > 0 THEN provs ELSE Keys(res)

\* resultsByRegistrar[provider].data, nothing for a provider without result
DataOf(res, p) ==
  IF \E i \in 1..Len(res) : res[i].provider = p
  THEN res[CHOOSE i \in 1..Len(res) : res[i].provider = p].data
  ELSE <<>>

\* Mutation: an entry without regular prices is read by its member prices.
AnyBandOf(entry) ==
  IF DOMAIN entry.regular # {} THEN entry.regular ELSE entry.member

\* entry?.['regular-price']
RegularPriceOf(entry) == entry.regular

\* Mutation: every value of the map is kept, finite or not.
NormalizeKeepsAll(map) == map

\* The finite values of a regular-price map.
NormalizeRegularPriceMap(map) ==
  [op \in {o \in DOMAIN map : IsFinite(map[o])} |-> map[op]]

\* The candidates one provider contributes, in the order of its data.
RECURSIVE ProviderCandidates(_, _, _)
ProviderCandidates(p, data, i) ==
  IF i > Len(data) THEN <<>>
  ELSE LET regular == NormalizeRegularPriceMap(RegularPriceOf(data[i]))
           rest == ProviderCandidates(p, data, i + 1)
       IN IF DOMAIN regular = {} THEN rest
          ELSE <<[provider |-> p, tld |-> data[i].tld, regular |-> regular]>> \o rest

\* Every candidate, provider after provider in the order of `include`.
RECURSIVE CollectCandidates(_, _, _)
CollectCandidates(res, include, i) ==
  IF i > Len(include) THEN <<>>
  ELSE ProviderCandidates(include[i], DataOf(res, include[i]), 1)
         \o CollectCandidates(res, include, i + 1)

\* Object.keys(candidatesByTld): the TLDs in the order they first appear.
RECURSIVE TldKeys(_, _, _)
TldKeys(cands, i, seen) ==
  IF i > Len(cands) THEN seen
  ELSE IF \E k \in 1..Len(seen) : seen[k] = cands[i].tld
       THEN TldKeys(cands, i + 1, seen)
       ELSE TldKeys(cands, i + 1, Append(seen, cands[i].tld))

\* candidatesByTld[tld]
OptionsOf(cands, tld) == SelectSeq(cands, LAMBDA c : c.tld = tld)

\* Mutation: the metric is the minimum over every operation.
CheapestMetricMinOnly(regularMap) ==
  LET finite == {regularMap[o] : o \in DOMAIN regularMap} \cap 0..(PositiveInfinity - 1)
  IN IF finite = {} THEN PositiveInfinity
     ELSE CHOOSE x \in finite : \A y \in finite : x <= y

\* The create price when there is one, the minimum over the values otherwise.
CheapestMetric(regularMap) ==
  IF "create" \in DOMAIN regularMap /\ IsFinite(regularMap["create"])
  THEN regularMap["create"]
  ELSE LET finite == {regularMap[o] : o \in DOMAIN regularMap} \cap 0..(PositiveInfinity - 1)
       IN IF finite = {} THEN PositiveInfinity
          ELSE CHOOSE x \in finite : \A y \in finite : x <= y

\* Mutation: on equal metrics the earlier candidate stays.
RECURSIVE SelectBestKeepFirst(_, _, _)
SelectBestKeepFirst(options, i, best) ==
  IF i > Len(options) THEN best
  ELSE IF CheapestMetric(options[i].regular) < CheapestMetric(best.regular)
       THEN SelectBestKeepFirst(options, i + 1, options[i])
       ELSE SelectBestKeepFirst(options, i + 1, best)

\* The selection loop of generateUnifiedList over the candidates of one TLD.
RECURSIVE SelectBest(_, _, _)
SelectBest(options, i, best) ==
  IF i > Len(options) THEN best
  ELSE LET metric == CheapestMetric(options[i].regular)
           bestMetric == CheapestMetric(best.regular)
       IN IF metric < bestMetric
             \/ (metric = bestMetric /\ StrLess(options[i].provider, best.provider))
          THEN SelectBest(options, i + 1, options[i])
          ELSE SelectBest(options, i + 1, best)

\* The comparator of selected.sort: by tld, then by provider.
EntryBefore(a, b) ==
  IF a.tld = b.tld THEN StrLess(a.provider, b.provider) ELSE StrLess(a.tld, b.tld)

\* The comparator of rows.sort: by tld only.
RowBefore(a, b) == StrLess(a.tld, b.tld)

\* Array.prototype.sort (stable) under EntryBefore.
RECURSIVE SortEntries(_)
SortEntries(s) ==
  IF Len(s) <= 1 THEN s
  ELSE LET sorted == SortEntries(SubSeq(s, 1, Len(s) - 1))
           x == s[Len(s)]
           after == {k \in 1..Len(sorted) : EntryBefore(x, sorted[k])}
           at == IF after = {} THEN Len(sorted) + 1
                 ELSE CHOOSE k \in after : \A j \in after : k <= j
       IN SubSeq(sorted, 1, at - 1) \o <<x>> \o SubSeq(sorted, at, Len(sorted))

\* Array.prototype.sort (stable) under RowBefore.
RECURSIVE SortRows(_)
SortRows(s) ==
  IF Len(s) <= 1 THEN s
  ELSE LET sorted == SortRows(SubSeq(s, 1, Len(s) - 1))
           x == s[Len(s)]
           after == {k \in 1..Len(sorted) : RowBefore(x, sorted[k])}
           at == IF after = {} THEN Len(sorted) + 1
                 ELSE CHOOSE k \in after : \A j \in after : k <= j
       IN SubSeq(sorted, 1, at - 1) \o <<x>> \o SubSeq(sorted, at, Len(sorted))

GenerateUnifiedList(res, provs) ==
  LET cands == CollectCandidates(res, Include(res, provs), 1)
      tlds == TldKeys(cands, 1, <<>>)
      selected == [k \in 1..Len(tlds) |->
                     LET options == OptionsOf(cands, tlds[k])
                     IN SelectBest(options, 2, options[1])]
  IN SortEntries(selected)

\* Number(cand['regular-price']?.[op])
OpPrice(cand, op) == IF op \in DOMAIN cand.regular THEN cand.regular[op] ELSE NaN

\* Mutation: a later candidate replaces the best on an equal price.
RECURSIVE BestForOpKeepLast(_, _, _, _)
BestForOpKeepLast(list, op, i, best) ==
  IF i > Len(list) THEN best
  ELSE LET price == OpPrice(list[i], op)
           bestPrice == IF best = <<>> THEN PositiveInfinity ELSE OpPrice(best[1], op)
       IN IF ~IsFinite(price) THEN BestForOpKeepLast(list, op, i + 1, best)
          ELSE IF price <= bestPrice
               THEN BestForOpKeepLast(list, op, i + 1, <<list[i]>>)
               ELSE BestForOpKeepLast(list, op, i + 1, best)

\* The loop of generateCheapestOpRows over the candidates of one TLD; best is
\* empty (null) or holds the best candidate so far.
RECURSIVE BestForOp(_, _, _, _)
BestForOp(list, op, i, best) ==
  IF i > Len(list) THEN best
  ELSE LET price == OpPrice(list[i], op)
           bestPrice == IF best = <<>> THEN PositiveInfinity ELSE OpPrice(best[1], op)
           bestProvider == IF best = <<>> THEN <<>> ELSE best[1].provider
       IN IF ~IsFinite(price) THEN BestForOp(list, op, i + 1, best)
          ELSE IF price < bestPrice
                  \/ (price = bestPrice /\ StrLess(list[i].provider, bestProvider))
               THEN BestForOp(list, op, i + 1, <<list[i]>>)
               ELSE BestForOp(list, op, i + 1, best)

\* The rows pushed for the TLDs from the k-th on.
RECURSIVE OpRowsFrom(_, _, _, _)
OpRowsFrom(cands, tlds, op, k) ==
  IF k > Len(tlds) THEN <<>>
  ELSE LET best == BestForOp(OptionsOf(cands, tlds[k]), op, 1, <<>>)
           rest == OpRowsFrom(cands, tlds, op, k + 1)
       IN IF best = <<>> THEN rest
          ELSE <<[tld |-> tlds[k], provider |-> best[1].provider,
                  amount |-> OpPrice(best[1], op)]>> \o rest

GenerateCheapestOpRows(res, op, provs) ==
  LET cands == CollectCandidates(res, Include(res, provs), 1)
  IN SortRows(OpRowsFrom(cands, TldKeys(cands, 1, <<>>), op, 1))

\* The provider ids "a", "ab" and "b" and the TLDs "com" and "net".
Providers == {<<97>>, <<97, 98>>, <<98>>}
Tlds == {<<99, 111, 109>>, <<110, 101, 116>>}
Ops == {"create", "renew", "transfer"}
Prices == {5, 9}

\* The regular-price maps of an entry: up to two operations at any price, or
\* one operation whose value may be NaN.
RegMaps == UNION {[D -> Prices] : D \in {E \in SUBSET Ops : Cardinality(E) <= 2}}
SmallMaps == UNION {[D -> Prices \cup {NaN}] : D \in {E \in SUBSET Ops : Cardinality(E) <= 1}}

\* The member-price and sale-price maps of every entry undercut each regular
\* price.
MemberPrice == [o \in {"create"} |-> 1]
SalePrice == [o \in Ops |-> 2]
NoPrices == [o \in {} |-> 0]

\* data[tld] = entry on the result of provider p, after what res holds.
AddEntry(res, p, entry) ==
  IF \E i \in 1..Len(res) : res[i].provider = p
  THEN [i \in 1..Len(res) |->
          IF res[i].provider = p
          THEN [res[i] EXCEPT !.data = Append(@, entry)]
          ELSE res[i]]
  ELSE Append(res, [provider |-> p, data |-> <<entry>>])

RECURSIVE BuildResults(_, _)
BuildResults(offers, i) ==
  IF i = 0 THEN <<>>
  ELSE AddEntry(BuildResults(offers, i - 1), offers[i].provider,
                [tld |-> offers[i].tld, regular |-> offers[i].regular,
                 member |-> MemberPrice, sale |-> SalePrice])

\* Offers of distinct (provider, tld) cells, in every insertion order: up to
\* two with any regular map, or one per provider for one TLD.
Offers(maps) == [provider : Providers, tld : Tlds, regular : maps]
DistinctCells(s) ==
  \A i, j \in DOMAIN s :
    i # j => (s[i].provider # s[j].provider \/ s[i].tld # s[j].tld)
OfferLists ==
  {s \in {<<>>} \cup [{1} -> Offers(RegMaps)] \cup [{1, 2} -> Offers(RegMaps)]
        : DistinctCells(s)}
  \cup {s \in [{1, 2, 3} -> Offers(SmallMaps)] :
          /\ DistinctCells(s)
          /\ \A i \in 1..3 : s[i].tld = <<99, 111, 109>>}

Reverse(s) == [i \in 1..Len(s) |-> s[Len(s) + 1 - i]]

\* The providers argument: absent, every key of the results backwards, or the
\* first key alone.
ProviderArgs(res) ==
  {<<>>, Reverse(Keys(res))} \cup {<<Keys(res)[i]>> : i \in 1..Len(res) \cap {1}}

\* The unified step of the CLI: the unified list, then the cheapest rows of
\* create, renew and transfer.
BuildUnified ==
  /\ upc = "ready"
  /\ upc' = "built"
  /\ unified' = GenerateUnifiedList(results, providers)
  /\ metrics' = LET cands == CollectCandidates(results, Include(results, providers), 1)
                IN {[regular |-> cands[i].regular,
                     metric |-> CheapestMetric(cands[i].regular)] : i \in 1..Len(cands)}
  /\ createRows' = GenerateCheapestOpRows(results, "create", providers)
  /\ renewRows' = GenerateCheapestOpRows(results, "renew", providers)
  /\ transferRows' = GenerateCheapestOpRows(results, "transfer", providers)
  /\ UNCHANGED <<results, providers>>
  /\ UNCHANGED <<cacheVars, batchVars, logVars, sheetVars, priceVars, rowVars, ncVars, niraVars, runVars, fwVars, legacyVars, currencyVars>>

UnifyInit ==
  /\ \E offers \in OfferLists : results = BuildResults(offers, Len(offers))
  /\ providers \in ProviderArgs(results)
  /\ upc = "ready"
  /\ unified = <<>>
  /\ metrics = {}
  /\ createRows = <<>> /\ renewRows = <<>> /\ transferRows = <<>>

InitUnify == CacheIdle /\ BatchIdle /\ LogIdle /\ UnifyInit /\ SheetIdle /\ PriceIdle /\ RowIdle /\ NcIdle /\ NiraIdle /\ RunIdle /\ FwIdle /\ LegacyIdle /\ CurrencyIdle

UnifyNext == BuildUnified

SpecUnify == InitUnify /\ [][UnifyNext]_vars

-----------------------------------------------------------------------------
(***************************************************************************)
(* Properties of getPricelist                                              *)
(***************************************************************************)

\* A getPricelist call has been made (its state is the current call's).
InCall == pc # "idle"

\* The call's result was written to the cache file as a CacheEntry.
Overwritten == nWrite = 1 /\ cacheFile = FileEntry(result.fetchedAt, result)

\* C1: with ttl = Infinity and a cache entry carrying cachedAt, getPricelist
\* returns the entry's payload unchanged (same fetchedAt), runs none of
\* fetch/parse/map and does not write the cache file, whatever the entry's age.
C1_InfinityReusesEntry ==
  (InCall /\ callTtl = TtlInfinity /\ fileAtCall.kind = "entry") =>
    /\ pc = "done" /\ outcome = "cached"
    /\ result = fileAtCall.payload
    /\ result.fetchedAt = fileAtCall.payload.fetchedAt
    /\ nFetch = 0 /\ nParse = 0 /\ nMap = 0 /\ nWrite = 0
    /\ cacheFile = fileAtCall

\* Witness of C1: an entry as old as the clock allows is reused under Infinity.
C1_Witness ==
  /\ pc = "done" /\ callTtl = TtlInfinity /\ fileAtCall.kind = "entry"
  /\ outcome = "cached"
  /\ nowAtCall - fileAtCall.cachedAt >= MaxTime

\* C2: getPricelist(0) never returns a cached payload: every call runs fetch
\* once, and (unless a stage throws) parse and map once each, and then
\* overwrites the cache entry with the newly mapped pricelist, whether or not
\* an entry existed before the call.
C2_ZeroAlwaysRefetches ==
  (pc = "done" /\ callTtl = TtlNum(0)) =>
    /\ outcome # "cached"
    /\ nFetch = 1
    /\ (errStage = "none" =>
          /\ outcome = "fresh" /\ nParse = 1 /\ nMap = 1
          /\ Overwritten /\ result.fetchedAt >= nowAtCall)

\* C3: for a finite ttl > 0, getPricelist returns the cached payload without
\* fetching exactly when an entry exists and (now - cachedAt) <= ttl; when
\* the entry is older, or no entry exists, the fetch pipeline runs and its
\* result overwrites the entry.
C3_FiniteTtlReuseIffFresh ==
  (InCall /\ callTtl.kind = "num" /\ callTtl.n > 0 /\ errStage # "read") =>
    IF fileAtCall.kind = "entry" /\ (nowAtCall - fileAtCall.cachedAt) <= callTtl.n
      THEN /\ pc = "done" /\ outcome = "cached"
           /\ result = fileAtCall.payload
           /\ nFetch = 0 /\ nWrite = 0
      ELSE /\ outcome # "cached"
           /\ (pc = "fetch" \/ nFetch = 1)
           /\ (pc = "done" /\ errStage = "none" => outcome = "fresh" /\ Overwritten)

\* Witness of C3: an entry whose age equals ttl exactly is reused.
C3_Witness ==
  /\ pc = "done" /\ callTtl.kind = "num" /\ callTtl.n > 0
  /\ fileAtCall.kind = "entry" /\ outcome = "cached"
  /\ nowAtCall - fileAtCall.cachedAt = callTtl.n

\* C22: when the cache file or its directory does not exist, or the stored
\* object has no cachedAt, PersistentCache.read returns null without an
\* error, and getPricelist runs the fetch pipeline whatever ttl is.
C22_MissingEntryReadsNull ==
  (InCall /\ fileAtCall.kind \in {"absent", "noTimestamp"}) =>
    /\ cached = NoEntry
    /\ errStage # "read"
    /\ outcome # "cached"
    /\ (pc = "fetch" \/ nFetch = 1)

\* Witness of C22: an object without cachedAt under ttl = Infinity, fetched
\* anew.
C22_Witness ==
  /\ pc = "done" /\ outcome = "fresh" /\ nFetch = 1
  /\ callTtl = TtlInfinity /\ fileAtCall.kind = "noTimestamp"

\* C27: a call that does not reuse the cache runs fetch, parse, map and the
\* cache write in that order, each at most once; when fetch, parse or map
\* fails the call rejects with that stage's error, no later stage has run
\* and the cache file is as it was before the call.
C27_PipelineInOrder ==
  (InCall /\ outcome # "cached" /\ errStage # "read") =>
    /\ nFetch \in 0..1 /\ nParse \in 0..1 /\ nMap \in 0..1 /\ nWrite \in 0..1
    /\ nParse <= nFetch /\ nMap <= nParse /\ nWrite <= nMap
    /\ (pc = "done" => nFetch = 1)
    /\ (pc = "done" /\ nFetch = 1 /\ nParse = 0 => outcome = "error" /\ errStage = "fetch")
    /\ (pc = "done" /\ nParse = 1 /\ nMap = 0 => outcome = "error" /\ errStage = "parse")
    /\ (pc = "done" /\ nMap = 1 /\ nWrite = 0 => outcome = "error" /\ errStage = "map")
    /\ (outcome = "error" => nWrite = 0 /\ cacheFile = fileAtCall /\ result = NoPricelist)
    /\ (nWrite = 0 => cacheFile = fileAtCall)

\* Witness of C27: parse failed after a fetch, over an existing entry.
C27_Witness ==
  /\ pc = "done" /\ outcome = "error" /\ errStage = "parse"
  /\ nFetch = 1 /\ nParse = 1 /\ nMap = 0
  /\ fileAtCall.kind = "entry"

\* C29: for a negative, NaN or -Infinity ttl, getPricelist returns the cached
\* payload whenever an entry exists, whatever its age and without a fetch,
\* and runs the fetch pipeline only when there is no entry.
C29_OddTtlReusesAnyEntry ==
  (InCall /\ errStage # "read"
     /\ (callTtl.kind \in {"nan", "ninf"} \/ (callTtl.kind = "num" /\ callTtl.n < 0))) =>
    IF fileAtCall.kind = "entry"
      THEN /\ pc = "done" /\ outcome = "cached"
           /\ result = fileAtCall.payload
           /\ nFetch = 0 /\ nWrite = 0 /\ cacheFile = fileAtCall
      ELSE /\ outcome # "cached"
           /\ (pc = "fetch" \/ nFetch = 1)

\* Witness of C29: a negative ttl reuses an entry as old as the clock allows.
C29_Witness ==
  /\ pc = "done" /\ outcome = "cached"
  /\ callTtl = TtlNum(0 - 1) /\ fileAtCall.kind = "entry"
  /\ nowAtCall - fileAtCall.cachedAt >= MaxTime

\* C30: the cache is read before ttl is looked at: when the cache file
\* exists but cannot be read or parsed, getPricelist rejects with the read
\* error for every ttl, ttl = 0 included, with no fetch and no cache write.
C30_ReadErrorRejectsFirst ==
  (InCall /\ fileAtCall.kind = "unreadable") =>
    /\ pc = "done" /\ outcome = "error" /\ errStage = "read"
    /\ nFetch = 0 /\ nParse = 0 /\ nMap = 0 /\ nWrite = 0
    /\ cacheFile = fileAtCall

\* Witness of C30: the call with ttl = 0 rejected on the read.
C30_Witness ==
  /\ pc = "done" /\ outcome = "error" /\ errStage = "read"
  /\ callTtl = TtlNum(0) /\ fileAtCall.kind = "unreadable" /\ nFetch = 0

-----------------------------------------------------------------------------
(***************************************************************************)
(* Properties of the unification engine, stated over the input             *)
(* (results, providers) without the engine's own operators.                *)
(***************************************************************************)

\* The providers taking part: the providers argument, or every provider of
\* the results when the argument is empty.
Included ==
  IF providers = <<>> THEN {results[i].provider : i \in 1..Len(results)}
  ELSE {providers[i] : i \in 1..Len(providers)}

\* The entry (none or one) provider p holds for TLD t.
EntriesOf(p, t) ==
  UNION {{results[i].data[j] :
            j \in {k \in 1..Len(results[i].data) : results[i].data[k].tld = t}} :
         i \in {k \in 1..Len(results) : results[k].provider = p}}

\* Provider p quotes a finite regular price for op of t, and that price.
Quotes(p, t, op) ==
  \E e \in EntriesOf(p, t) : op \in DOMAIN e.regular /\ e.regular[op] \in Prices
QuoteOf(p, t, op) == (CHOOSE e \in EntriesOf(p, t) : TRUE).regular[op]

\* The least number of a non-empty set.
Least(S) == CHOOSE x \in S : \A y \in S : x <= y

\* The included providers with a finite regular price for t, for op of t.
Bidders(t) == {p \in Included : \E op \in Ops : Quotes(p, t, op)}
OpBidders(t, op) == {p \in Included : Quotes(p, t, op)}

\* The ranking metric as the specification words it.
RankingMetric(p, t) ==
  IF Quotes(p, t, "create") THEN QuoteOf(p, t, "create")
  ELSE Least({QuoteOf(p, t, op) : op \in {o \in Ops : Quotes(p, t, o)}})

\* Lexicographic order of the provider ids and of the TLDs, written out.
IdOrder == << <<97>>, <<97, 98>>, <<98>> >>
IdRank(p) == CHOOSE i \in 1..Len(IdOrder) : IdOrder[i] = p
TldOrder == << <<99, 111, 109>>, <<110, 101, 116>> >>
TldRank(t) == CHOOSE i \in 1..Len(TldOrder) : TldOrder[i] = t

\* The included providers in the order the engine visits them.
Visited == IF providers = <<>> THEN Keys(results) ELSE providers

\* C6: for each TLD with candidates, the unified list names the included
\* provider with the strictly lowest ranking metric, and among providers that
\* share the lowest metric the one with the lexicographically smallest id.
C6_LowestMetricWins ==
  upc = "built" =>
    \A t \in Tlds :
      Bidders(t) # {} =>
        /\ \E k \in 1..Len(unified) : unified[k].tld = t
        /\ \A k \in 1..Len(unified) :
             unified[k].tld = t =>
               LET w == unified[k].provider
               IN /\ w \in Bidders(t)
                  /\ \A q \in Bidders(t) \ {w} :
                       \/ RankingMetric(w, t) < RankingMetric(q, t)
                       \/ /\ RankingMetric(w, t) = RankingMetric(q, t)
                          /\ IdRank(w) < IdRank(q)

\* Three providers share the lowest metric of a TLD and the one visited first
\* is not the smallest id; the smallest id is selected.
C6_Witness ==
  /\ upc = "built"
  /\ \E t \in Tlds :
       /\ Cardinality(Bidders(t)) = 3
       /\ \A p, q \in Bidders(t) : RankingMetric(p, t) = RankingMetric(q, t)
       /\ IdRank(Visited[1]) > 1
       /\ \E k \in 1..Len(unified) :
            unified[k].tld = t /\ IdRank(unified[k].provider) = 1

\* C7: the ranking metric of a candidate is its regular create price when it
\* has one, even if another operation is cheaper, and otherwise the minimum
\* over the prices of its regular map.
C7_MetricPrefersCreate ==
  \A x \in metrics :
    x.metric = IF "create" \in DOMAIN x.regular THEN x.regular["create"]
               ELSE Least({x.regular[o] : o \in DOMAIN x.regular})

\* One candidate has create 9 and renew 5 and ranks at 9; another has no
\* create, renew 5 and transfer 9, and ranks at 5.
C7_Witness ==
  /\ upc = "built"
  /\ \E x \in metrics :
       /\ DOMAIN x.regular = {"create", "renew"}
       /\ x.regular["create"] = 9 /\ x.regular["renew"] = 5 /\ x.metric = 9
  /\ \E x \in metrics :
       /\ DOMAIN x.regular = {"renew", "transfer"}
       /\ x.regular["renew"] = 5 /\ x.regular["transfer"] = 9 /\ x.metric = 5

\* The results with every member-price and sale-price map emptied.
RegularOnly(res) ==
  [i \in 1..Len(res) |->
     [res[i] EXCEPT !.data =
        [j \in 1..Len(res[i].data) |->
           [res[i].data[j] EXCEPT !.member = NoPrices, !.sale = NoPrices]]]]

\* C8: the unified list and the cheapest rows depend on the regular-price
\* maps only: the input without its member and sale prices gives the same
\* outputs.
C8_OnlyRegularPricesCount ==
  upc = "built" =>
    /\ unified = GenerateUnifiedList(RegularOnly(results), providers)
    /\ createRows = GenerateCheapestOpRows(RegularOnly(results), "create", providers)
    /\ renewRows = GenerateCheapestOpRows(RegularOnly(results), "renew", providers)
    /\ transferRows = GenerateCheapestOpRows(RegularOnly(results), "transfer", providers)

\* A TLD has a winner quoting regular prices, and another included provider
\* lists the TLD with a cheaper member price and no regular price at all.
C8_Witness ==
  /\ upc = "built"
  /\ \E t \in Tlds, p \in Included :
       /\ \E e \in EntriesOf(p, t) :
            /\ DOMAIN e.regular = {}
            /\ \E o \in DOMAIN e.member : e.member[o] < Least(Prices)
       /\ \E k \in 1..Len(unified) : unified[k].tld = t /\ unified[k].provider # p
       /\ \E k \in 1..Len(createRows) : createRows[k].tld = t

\* The rows of one operation are as C9 says.
RowsAreCheapest(rows, op) ==
  /\ \A t \in Tlds :
       IF OpBidders(t, op) = {}
       THEN \A k \in 1..Len(rows) : rows[k].tld # t
       ELSE LET lowest == Least({QuoteOf(p, t, op) : p \in OpBidders(t, op)})
                atLowest == {p \in OpBidders(t, op) : QuoteOf(p, t, op) = lowest}
            IN /\ \E k \in 1..Len(rows) : rows[k].tld = t
               /\ \A k \in 1..Len(rows) :
                    rows[k].tld = t =>
                      /\ rows[k].amount = lowest
                      /\ rows[k].provider \in atLowest
                      /\ \A q \in atLowest : IdRank(rows[k].provider) <= IdRank(q)
  /\ \A i, j \in 1..Len(rows) : i < j => TldRank(rows[i].tld) <= TldRank(rows[j].tld)

\* C9: generateCheapestOpRows emits a row for a TLD only if an included
\* provider quotes a finite regular price for that operation; the amount is
\* the lowest such price, the provider the smallest id among those quoting
\* it, and the rows ascend by tld.
C9_CheapestOpRows ==
  upc = "built" =>
    /\ RowsAreCheapest(createRows, "create")
    /\ RowsAreCheapest(renewRows, "renew")
    /\ RowsAreCheapest(transferRows, "transfer")

\* Nobody quotes create for a TLD, so it has no create row although renew is
\* priced; two providers quote the lowest renew price, the larger id first.
C9_Witness ==
  /\ upc = "built"
  /\ \E t \in Tlds :
       /\ Bidders(t) # {}
       /\ OpBidders(t, "create") = {}
       /\ \A k \in 1..Len(createRows) : createRows[k].tld # t
       /\ Cardinality(OpBidders(t, "renew")) >= 2
       /\ \A p, q \in OpBidders(t, "renew") : QuoteOf(p, t, "renew") = QuoteOf(q, t, "renew")
       /\ \E k \in 1..Len(renewRows) :
            /\ renewRows[k].tld = t
            /\ IdRank(Visited[1]) > IdRank(renewRows[k].provider)

\* C26: the unified list has exactly one entry for each TLD for which some
\* included provider has a regular-price map with a finite price, no entry
\* for any other TLD, and its entries are in strictly ascending tld order.
C26_OneEntryPerPricedTld ==
  upc = "built" =>
    /\ \A t \in Tlds :
         Cardinality({k \in 1..Len(unified) : unified[k].tld = t})
           = IF Bidders(t) # {} THEN 1 ELSE 0
    /\ \A k \in 1..Len(unified) : unified[k].tld \in Tlds
    /\ \A k \in 1..(Len(unified) - 1) :
         TldRank(unified[k].tld) < TldRank(unified[k + 1].tld)

\* Witness of C26: one TLD has its entry, the other has an entry in the
\* results with no finite regular price and is not in the list.
C26_Witness ==
  /\ upc = "built"
  /\ Len(unified) = 1
  /\ \E t \in Tlds :
       /\ \E p \in Included : EntriesOf(p, t) # {}
       /\ Bidders(t) = {}
       /\ \A k \in 1..Len(unified) : unified[k].tld # t

-----------------------------------------------------------------------------
(***************************************************************************)
(* Header search of the OpenProvider sheet: findHeaderRow of the legacy    *)
(* script, OpenproviderRegistrar.parse and openproviderGenerator.generate. *)
(* A record is a sequence of cells, a cell a sequence of characters.       *)
(***************************************************************************)

\* findHeaderRow's scan limit
MAX_SCAN == 15

\* Records before the header row, at most
MaxLead == 16

\* The code unit U+FEFF
Bom == "U+FEFF"

HeaderTLD == <<"T", "L", "D">>
HeaderYears == <<"Y", "e", "a", "r", "s">>
HeaderOperation == <<"O", "p", "e", "r", "a", "t", "i", "o", "n">>
HeaderPrice == <<"P", "r", "i", "c", "e">>
HeaderMember == <<"B", "a", "s", "i", "c", " ", "\\", " ", "P", "r", "o", " ", "\\", " ",
                  "E", "x", "p", "e", "r", "t">>
HeaderSupreme == <<"S", "u", "p", "r", "e", "m", "e">>

REQUIRED_HEADERS ==
  {HeaderTLD, HeaderYears, HeaderOperation, HeaderPrice, HeaderMember, HeaderSupreme}

\* value.replace(/\uFEFF/g, '')
RemoveBom(cell) == SelectSeq(cell, LAMBDA ch : ch # Bom)

\* String.prototype.trim
Trim(cell) ==
  LET inked == {i \in 1..Len(cell) : cell[i] \notin {" ", "\t", Bom}}
  IN IF inked = {} THEN <<>>
     ELSE SubSeq(cell, CHOOSE i \in inked : \A j \in inked : i <= j,
                       CHOOSE i \in inked : \A j \in inked : i >= j)

NormalizeHeader(cell) == Trim(RemoveBom(cell))

\* row.map(normalizeHeader)
NormalizeRow(row) == [i \in 1..Len(row) |-> NormalizeHeader(row[i])]

\* REQUIRED_HEADERS.every((header) => row.includes(header))
HasRequiredHeaders(row) ==
  \A header \in REQUIRED_HEADERS : \E i \in 1..Len(row) : row[i] = header

\* Array.prototype.findIndex over the normalized records, from index i: the
\* index (from 0) of the first record with every required header, or -1.
RECURSIVE FindIndex(_, _)
FindIndex(records, i) ==
  IF i >= Len(records) THEN 0 - 1
  ELSE IF HasRequiredHeaders(NormalizeRow(records[i + 1])) THEN i
       ELSE FindIndex(records, i + 1)

\* Math.min
Min(a, b) == IF a <= b THEN a ELSE b

\* The loop of findHeaderRow from index i: the index of the header row, or -1
\* where findHeaderRow throws.
RECURSIVE FindHeaderRow(_, _)
FindHeaderRow(allRows, i) ==
  IF i >= Min(MAX_SCAN, Len(allRows)) THEN 0 - 1
  ELSE IF HasRequiredHeaders(NormalizeRow(allRows[i + 1])) THEN i
       ELSE FindHeaderRow(allRows, i + 1)

\* The header search of the legacy script's main.
LegacyMain ==
  /\ spc = "ready" /\ impl = "legacy"
  /\ spc' = "done"
  /\ IF Len(sheet) = 0
     THEN headerIndex' = 0 - 1 /\ parseError' = "empty"
     ELSE /\ headerIndex' = FindHeaderRow(sheet, 0)
          /\ parseError' = IF headerIndex' = 0 - 1 THEN "headers not found" ELSE "none"
  /\ UNCHANGED <<sheet, impl>>
  /\ UNCHANGED <<cacheVars, batchVars, logVars, unifyVars, priceVars, rowVars, ncVars, niraVars, runVars, fwVars, legacyVars, currencyVars>>

\* The header search of OpenproviderRegistrar.parse.
RegistrarParse ==
  /\ spc = "ready" /\ impl = "registrar"
  /\ spc' = "done"
  /\ IF Len(sheet) = 0
     THEN headerIndex' = 0 - 1 /\ parseError' = "empty"
     ELSE /\ headerIndex' = FindIndex(sheet, 0)
          /\ parseError' = IF headerIndex' = 0 - 1 THEN "headers not found" ELSE "none"
  /\ UNCHANGED <<sheet, impl>>
  /\ UNCHANGED <<cacheVars, batchVars, logVars, unifyVars, priceVars, rowVars, ncVars, niraVars, runVars, fwVars, legacyVars, currencyVars>>

\* The header search of openproviderGenerator.generate.
GeneratorGenerate ==
  /\ spc = "ready" /\ impl = "generator"
  /\ spc' = "done"
  /\ IF Len(sheet) = 0
     THEN headerIndex' = 0 - 1 /\ parseError' = "empty"
     ELSE /\ headerIndex' = FindIndex(sheet, 0)
          /\ parseError' = IF headerIndex' = 0 - 1 THEN "headers not found" ELSE "none"
  /\ UNCHANGED <<sheet, impl>>
  /\ UNCHANGED <<cacheVars, batchVars, logVars, unifyVars, priceVars, rowVars, ncVars, niraVars, runVars, fwVars, legacyVars, currencyVars>>

\* Records of a sheet: the header row as the sheet has it, the same headers
\* in another order with a BOM, padding and one more column, rows that miss
\* it (one header short, one header in lower case, a banner, an empty
\* record), and a data row.
HeaderRow ==
  <<HeaderTLD, HeaderYears, HeaderOperation, HeaderPrice, HeaderMember, HeaderSupreme>>
PaddedHeaderRow ==
  <<<<Bom>> \o HeaderYears, <<" ">> \o HeaderTLD \o <<" ">>, HeaderSupreme,
    <<"N", "o", "t", "e", "s">>, HeaderMember \o <<"\t">>, HeaderPrice, HeaderOperation>>
PartialRow == <<HeaderTLD, HeaderYears, HeaderOperation, HeaderPrice, HeaderMember>>
LowerCaseRow ==
  <<<<"t", "l", "d">>, HeaderYears, HeaderOperation, HeaderPrice, HeaderMember, HeaderSupreme>>
BannerRow == <<<<"P", "r", "i", "c", "e", " ", "l", "i", "s", "t">>>>
EmptyRow == <<>>
DataRow ==
  <<<<"c", "o", "m">>, <<"1">>, <<"c", "r", "e", "a", "t", "e">>, <<"$", "9">>,
    <<"$", "8">>, <<"$", "7">>>>

\* n copies of one record
Repeat(row, n) == [i \in 1..n |-> row]

Sheets ==
  {Repeat(lead, n) \o header \o rest :
     lead \in {PartialRow, LowerCaseRow, BannerRow, EmptyRow},
     n \in 0..MaxLead,
     header \in {<<>>, <<HeaderRow>>, <<PaddedHeaderRow>>},
     rest \in {<<>>, <<DataRow>>}}

SheetInit ==
  /\ sheet \in Sheets
  /\ impl \in {"legacy", "registrar", "generator"}
  /\ spc = "ready"
  /\ headerIndex = 0 - 1
  /\ parseError = "none"

InitSheet == CacheIdle /\ BatchIdle /\ LogIdle /\ UnifyIdle /\ SheetInit /\ PriceIdle /\ RowIdle /\ NcIdle /\ NiraIdle /\ RunIdle /\ FwIdle /\ LegacyIdle /\ CurrencyIdle

SheetNext ==
  \/ LegacyMain
  \/ RegistrarParse
  \/ GeneratorGenerate

SpecSheet == InitSheet /\ [][SheetNext]_vars

\* The indexes (from 0) of the records that hold every required header once
\* their cells are trimmed.
HeaderRowsAt ==
  {i \in 0..(Len(sheet) - 1) :
     \A header \in REQUIRED_HEADERS :
       \E k \in 1..Len(sheet[i + 1]) : NormalizeHeader(sheet[i + 1][k]) = header}

\* C10: the header search examines the first 15 records only: a first header
\* row at index 14 or before is accepted as the header row, a first header
\* row at index 15 or later (or none) fails with 'headers not found'.
C10_HeaderSearchWindow ==
  (spc = "done" /\ Len(sheet) > 0) =>
    IF HeaderRowsAt # {} /\ Least(HeaderRowsAt) <= 14
    THEN parseError = "none" /\ headerIndex = Least(HeaderRowsAt)
    ELSE parseError = "headers not found"

-----------------------------------------------------------------------------
(***************************************************************************)
(* Cell texts of the OpenProvider sheet and their conversions (parsePrice, *)
(* toInt).  A number is counted in hundredths, so that a text with up to   *)
(* two decimals has an integer value.                                      *)
(***************************************************************************)

\* Length of the texts handed to parsePrice, at most
MaxPriceLen == 3

\* JavaScript values: null, NaN, a number (n in hundredths), an integer.
Null == [kind |-> "null", n |-> 0]
NotANumber == [kind |-> "NaN", n |-> 0]
Hundredths(n) == [kind |-> "number", n |-> n]
Int32(n) == [kind |-> "int", n |-> n]

\* A cell of a record: its text, or undefined past the end of a short record.
Undefined == [defined |-> FALSE, text |-> <<>>]
Cell(text) == [defined |-> TRUE, text |-> text]

Digits == <<"0", "1", "2", "3", "4", "5", "6", "7", "8", "9">>
IsDigit(ch) == \E d \in 1..Len(Digits) : Digits[d] = ch
DigitValue(ch) == (CHOOSE d \in 1..Len(Digits) : Digits[d] = ch) - 1

UpperCase == <<"A", "B", "C", "D", "E", "F", "G", "H", "I", "J", "K", "L", "M",
               "N", "O", "P", "Q", "R", "S", "T", "U", "V", "W", "X", "Y", "Z">>
LowerCase == <<"a", "b", "c", "d", "e", "f", "g", "h", "i", "j", "k", "l", "m",
               "n", "o", "p", "q", "r", "s", "t", "u", "v", "w", "x", "y", "z">>

\* String.prototype.toLowerCase
ToLowerCase(text) ==
  [i \in 1..Len(text) |->
     IF \E k \in 1..Len(UpperCase) : UpperCase[k] = text[i]
     THEN LowerCase[CHOOSE k \in 1..Len(UpperCase) : UpperCase[k] = text[i]]
     ELSE text[i]]

\* The value of a sequence of digits.
RECURSIVE DigitsValue(_)
DigitsValue(ds) ==
  IF ds = <<>> THEN 0
  ELSE 10 * DigitsValue(SubSeq(ds, 1, Len(ds) - 1)) + DigitValue(ds[Len(ds)])

\* The hundredths a sequence of decimals stands for (two decimals count).
FractionValue(ds) ==
  (IF Len(ds) >= 1 THEN 10 * DigitValue(ds[1]) ELSE 0)
    + (IF Len(ds) >= 2 THEN DigitValue(ds[2]) ELSE 0)

\* Number(text) for a trimmed text: 0 for the empty text, the value of a
\* signed decimal literal, NaN for anything else.
NumberOf(text) ==
  IF text = <<>> THEN Hundredths(0)
  ELSE LET signed == text[1] \in {"-", "+"}
           body == IF signed THEN Tail(text) ELSE text
           dots == {i \in 1..Len(body) : body[i] = "."}
           dot == IF dots = {} THEN Len(body) + 1 ELSE CHOOSE i \in dots : TRUE
           whole == SubSeq(body, 1, dot - 1)
           fraction == SubSeq(body, dot + 1, Len(body))
           literal == /\ Cardinality(dots) <= 1
                      /\ \A i \in 1..Len(body) : i \in dots \/ IsDigit(body[i])
                      /\ Len(whole) + Len(fraction) >= 1
           size == 100 * DigitsValue(whole) + FractionValue(fraction)
       IN IF ~literal THEN NotANumber
          ELSE IF text[1] = "-" THEN Hundredths(0 - size) ELSE Hundredths(size)

\* The texts parsePrice takes for 'no price'.
PriceSentinels ==
  {<<"n", "a">>, <<"n", "/", "a">>,
   <<"n", "o", "n", "m", "e", "m", "b", "e", "r", "p", "r", "i", "c", "e">>,
   <<"n", "o", "n", "-", "m", "e", "m", "b", "e", "r", "p", "r", "i", "c", "e">>,
   <<"n", "o", "n", "-", "m", "e", "m", "b", "e", "r">>,
   <<"n", "o", "n", " ", "m", "e", "m", "b", "e", "r">>}

\* text.replace(/\.(?=.*\.)/g, ''): only the last dot stays.
KeepLastDot(text) ==
  LET kept == {i \in 1..Len(text) :
                 text[i] # "." \/ \A j \in (i + 1)..Len(text) : text[j] # "."}
      Nth(k) == CHOOSE i \in kept : Cardinality({j \in kept : j < i}) = k - 1
  IN [k \in 1..Cardinality(kept) |-> text[Nth(k)]]

\* parsePrice: null, or the finite number the cleaned text parses to.
ParsePrice(rawCell) ==
  IF ~rawCell.defined THEN Null
  ELSE LET text == ToLowerCase(Trim(rawCell.text))
           cleaned == Trim(KeepLastDot(SelectSeq(text, LAMBDA ch : IsDigit(ch) \/ ch \in {".", "-"})))
           n == NumberOf(cleaned)
       IN IF text = <<>> \/ text \in PriceSentinels THEN Null
          ELSE IF ~\E i \in 1..Len(text) : IsDigit(text[i]) THEN Null
          ELSE IF n.kind = "number" THEN n ELSE Null

\* Math.trunc of a number in hundredths.
Trunc(h) == IF h >= 0 THEN h \div 100 ELSE 0 - ((0 - h) \div 100)

\* toInt: null, or the integer part of Number(String(value).trim()).
ToInt(value) ==
  IF ~value.defined THEN Null
  ELSE LET n == NumberOf(Trim(value.text))
       IN IF n.kind = "number" THEN Int32(Trunc(n.n)) ELSE Null

\* parsePrice applied to one value.
ParsePriceCall ==
  /\ ppc = "ready"
  /\ ppc' = "returned"
  /\ priceOut' = ParsePrice(priceRaw)
  /\ UNCHANGED priceRaw
  /\ UNCHANGED <<cacheVars, batchVars, logVars, unifyVars, sheetVars, rowVars, ncVars, niraVars, runVars, fwVars, legacyVars, currencyVars>>

PriceAlphabet == {"5", "1", "-", ".", "$", " ", "n", "a"}

\* undefined, or any text over the alphabet.
PriceInputs ==
  {Undefined} \cup
  {Cell(text) : text \in UNION {[1..n -> PriceAlphabet] : n \in 0..MaxPriceLen}}

PriceInit ==
  /\ priceRaw \in PriceInputs
  /\ ppc = "ready"
  /\ priceOut = [kind |-> "null", n |-> 0]

InitPrice == CacheIdle /\ BatchIdle /\ LogIdle /\ UnifyIdle /\ SheetIdle /\ PriceInit /\ RowIdle /\ NcIdle /\ NiraIdle /\ RunIdle /\ FwIdle /\ LegacyIdle /\ CurrencyIdle

PriceNext == ParsePriceCall

SpecPrice == InitPrice /\ [][PriceNext]_vars

\* C17: parsePrice returns a number only if it is finite and not negative; a
\* text that parses to a negative value gives no price.
C17_ParsePriceNeverNegative ==
  ppc = "returned" => (priceOut.kind = "null" \/ (priceOut.kind = "number" /\ priceOut.n >= 0))

-----------------------------------------------------------------------------
(***************************************************************************)
(* The row loop of OpenproviderRegistrar.parse (the same loop is in        *)
(* openproviderGenerator.generate and in the legacy script) and the items  *)
(* OpenproviderRegistrar.map builds from its result.  A record is given by *)
(* its length and the five cells the loop looks up.                        *)
(***************************************************************************)

\* String(cell ?? '')
TextOf(cell) == IF cell.defined THEN cell.text ELSE <<>>

\* Mutation: no member cell is taken for the label.
IsNeverNonMemberPrice(memberCell) == FALSE

\* /^non[-\s]?member price$/i
IsNonMemberPrice(memberCell) ==
  LET lower == ToLowerCase(memberCell)
      non == <<"n", "o", "n">>
      rest == <<"m", "e", "m", "b", "e", "r", " ", "p", "r", "i", "c", "e">>
  IN lower = non \o rest \/ \E sep \in {"-", " ", "\t"} : lower = non \o <<sep>> \o rest

\* What the loop reads from one record.
RowTld(row) == Trim(TextOf(row.tld))
RowYears(row) == ToInt(row.years)
RowOp(row) == ToLowerCase(Trim(TextOf(row.operation)))
RowNonMember(row) == ParsePrice(row.price)
RowMember(row) ==
  IF IsNonMemberPrice(Trim(TextOf(row.member))) THEN RowNonMember(row)
  ELSE ParsePrice(Cell(Trim(TextOf(row.member))))

\* The record is skipped: it is empty, or has no tld, no integer Years or no
\* operation.
RowSkipped(row) ==
  row.length = 0 \/ RowTld(row) = <<>> \/ RowYears(row) = Null \/ RowOp(row) = <<>>

\* Mutation: only the regular price counts as a price of the row.
HasRegularPrice(nonMember, member) == nonMember # Null

\* nonMember !== null || member !== null
HasPrice(nonMember, member) == nonMember # Null \/ member # Null

\* Mutation: every year writes into the operation maps.
IsAnyYear(years) == TRUE

\* years === 1
IsYearOne(years) == years = Int32(1)

\* Math.max
Max(a, b) == IF a >= b THEN a ELSE b

\* map[op] = price
SetOp(map, op, price) ==
  [o \in DOMAIN map \cup {op} |-> IF o = op THEN price ELSE map[o]]

\* The entry of a TLD after the loop body has run on a record of that TLD.
EntryAfter(entry, row) ==
  LET years == RowYears(row)
      nonMember == RowNonMember(row)
      member == RowMember(row)
      counted == IF HasPrice(nonMember, member)
                 THEN [entry EXCEPT !.maxYears = Max(@, years.n)]
                 ELSE entry
  IN IF ~IsYearOne(years) THEN counted
     ELSE [counted EXCEPT
             !.regular = IF nonMember # Null THEN SetOp(@, RowOp(row), nonMember) ELSE @,
             !.member = IF member # Null THEN SetOp(@, RowOp(row), member) ELSE @]

\* { maxYears: 0, regular: {}, member: {} }
NewEntry == [maxYears |-> 0, regular |-> <<>>, member |-> <<>>]

\* One turn of the loop over dataRows.
ProcessRow ==
  /\ rpc = "rows"
  /\ rowIdx < Len(dataRows)
  /\ rowIdx' = rowIdx + 1
  /\ LET row == dataRows[rowIdx + 1]
         tld == RowTld(row)
         entry == IF tld \in DOMAIN parsedData THEN parsedData[tld] ELSE NewEntry
     IN IF RowSkipped(row)
        THEN UNCHANGED <<parsedData, emittedYear1>>
        ELSE /\ parsedData' = [t \in DOMAIN parsedData \cup {tld} |->
                                 IF t = tld THEN EntryAfter(entry, row) ELSE parsedData[t]]
             /\ emittedYear1' = IF IsYearOne(RowYears(row)) THEN emittedYear1 + 1
                                ELSE emittedYear1
  /\ UNCHANGED <<dataRows, rpc, items>>
  /\ UNCHANGED <<cacheVars, batchVars, logVars, unifyVars, sheetVars, priceVars, ncVars, niraVars, runVars, fwVars, legacyVars, currencyVars>>

\* parse returns once the loop is over.
ParseReturn ==
  /\ rpc = "rows"
  /\ rowIdx = Len(dataRows)
  /\ rpc' = "parsed"
  /\ UNCHANGED <<dataRows, rowIdx, parsedData, emittedYear1, items>>
  /\ UNCHANGED <<cacheVars, batchVars, logVars, unifyVars, sheetVars, priceVars, ncVars, niraVars, runVars, fwVars, legacyVars, currencyVars>>

\* UTF-16 order of the characters of cell texts.
CodeUnits == <<"\t", " ", "$", "-", ".", "/">> \o Digits \o UpperCase \o LowerCase
CodeUnit(ch) == CHOOSE i \in 1..Len(CodeUnits) : CodeUnits[i] = ch
TextLess(a, b) ==
  StrLess([i \in 1..Len(a) |-> CodeUnit(a[i])], [i \in 1..Len(b) |-> CodeUnit(b[i])])

\* Object.keys(parsed.data).sort()
RECURSIVE SortedKeys(_)
SortedKeys(keys) ==
  IF keys = {} THEN <<>>
  ELSE LET first == CHOOSE k \in keys : \A other \in keys \ {k} : TextLess(k, other)
       IN <<first>> \o SortedKeys(keys \ {first})

\* The bands of an entry: regular and member, each only if it has a price.
BandsOf(entry) ==
  (IF DOMAIN entry.regular # {}
   THEN <<[id |-> "regular", operations |-> entry.regular]>> ELSE <<>>)
  \o (IF DOMAIN entry.member # {}
      THEN <<[id |-> "member", operations |-> entry.member]>> ELSE <<>>)

\* entry.maxYears || undefined
MaxYearsOf(entry) ==
  IF entry.maxYears = 0 THEN [defined |-> FALSE, n |-> 0]
  ELSE [defined |-> TRUE, n |-> entry.maxYears]

\* The items pushed for the keys from the k-th on.
RECURSIVE ItemsFrom(_, _, _)
ItemsFrom(entries, keys, k) ==
  IF k > Len(keys) THEN <<>>
  ELSE LET entry == entries[keys[k]]
           rest == ItemsFrom(entries, keys, k + 1)
       IN IF BandsOf(entry) = <<>> THEN rest
          ELSE <<[tld |-> keys[k], maxYears |-> MaxYearsOf(entry),
                  bands |-> BandsOf(entry)]>> \o rest

\* OpenproviderRegistrar.map
MapItems ==
  /\ rpc = "parsed"
  /\ rpc' = "mapped"
  /\ items' = ItemsFrom(parsedData, SortedKeys(DOMAIN parsedData), 1)
  /\ UNCHANGED <<dataRows, rowIdx, parsedData, emittedYear1>>
  /\ UNCHANGED <<cacheVars, batchVars, logVars, unifyVars, sheetVars, priceVars, ncVars, niraVars, runVars, fwVars, legacyVars, currencyVars>>

\* Cell texts of the data records.
TextCom == <<"c", "o", "m">>
TextNetPadded == <<" ", "n", "e", "t">>
TextCreate == <<"c", "r", "e", "a", "t", "e">>
TextRenew == <<"R", "e", "n", "e", "w">>
TextNine == <<"$", "9">>
TextEight == <<"$", "8">>
TextNA == <<"n", "/", "a">>
TextNonMemberPrice ==
  <<"N", "o", "n", "-", "m", "e", "m", "b", "e", "r", " ", "p", "r", "i", "c", "e">>

FullRow(tld, years, operation, price, member) ==
  [length |-> 6, tld |-> Cell(tld), years |-> Cell(years), operation |-> Cell(operation),
   price |-> Cell(price), member |-> Cell(member)]

\* Records of one TLD and operation, for years 1 to 3.
NarrowRows ==
  {FullRow(TextCom, years, TextCreate, price, member) :
     years \in {<<"1">>, <<"2">>, <<"3">>},
     price \in {TextNine, TextNA},
     member \in {TextEight, TextNonMemberPrice, TextNA}}

\* An empty record, and records the loop skips or reads with Years 0.
OddRows ==
  {[length |-> 0, tld |-> Undefined, years |-> Undefined, operation |-> Undefined,
    price |-> Undefined, member |-> Undefined],
   [length |-> 2, tld |-> Cell(TextCom), years |-> Cell(<<"2">>), operation |-> Undefined,
    price |-> Undefined, member |-> Undefined],
   FullRow(<<" ">>, <<"1">>, TextCreate, TextNine, TextEight),
   FullRow(TextCom, <<"x">>, TextCreate, TextNine, TextEight),
   FullRow(TextCom, <<>>, TextCreate, TextNine, TextEight)}

Rows ==
  {FullRow(tld, years, operation, price, member) :
     tld \in {TextCom, TextNetPadded},
     years \in {<<"1">>, <<"2">>, <<"3">>},
     operation \in {TextCreate, TextRenew},
     price \in {TextNine, TextNA},
     member \in {TextEight, TextNonMemberPrice, TextNA}}
  \cup OddRows

\* Year-1 records whose member cell is a spelling of the label, or close to
\* one.
TextNonMemberSpaced ==
  <<"n", "o", "n", " ", "m", "e", "m", "b", "e", "r", " ", "p", "r", "i", "c", "e">>
TextNonMemberJoined ==
  <<"N", "O", "N", "M", "E", "M", "B", "E", "R", " ", "P", "R", "I", "C", "E">>
TextNonMemberTab ==
  <<"n", "o", "n", "\t", "m", "e", "m", "b", "e", "r", " ", "p", "r", "i", "c", "e">>
TextNonMemberTwoSeps ==
  <<"n", "o", "n", "-", " ", "m", "e", "m", "b", "e", "r", " ", "p", "r", "i", "c", "e">>
TextNonMember == <<"n", "o", "n", "-", "m", "e", "m", "b", "e", "r">>
LabelRows ==
  {FullRow(TextCom, <<"1">>, TextCreate, price, member) :
     price \in {TextNine, TextNA},
     member \in {TextNonMemberSpaced, TextNonMemberJoined, TextNonMemberTab,
                 TextNonMemberTwoSeps, TextNonMember}}

\* Up to two records of any kind, three of one TLD and operation, or one
\* record with a spelling of the label.
RowLists ==
  {<<>>} \cup [{1} -> Rows] \cup [{1, 2} -> Rows] \cup [{1, 2, 3} -> NarrowRows]
    \cup [{1} -> LabelRows]

RowInit ==
  /\ dataRows \in RowLists
  /\ rowIdx = 0
  /\ parsedData = <<>>
  /\ emittedYear1 = 0
  /\ rpc = "rows"
  /\ items = <<>>

InitRows ==
  CacheIdle /\ BatchIdle /\ LogIdle /\ UnifyIdle /\ SheetIdle /\ PriceIdle /\ RowInit /\ NcIdle /\ NiraIdle /\ RunIdle /\ FwIdle /\ LegacyIdle /\ CurrencyIdle

RowNext ==
  \/ ProcessRow
  \/ ParseReturn
  \/ MapItems

SpecRows == InitRows /\ [][RowNext]_vars

\* The record the loop takes next, and the one it took last.
NextRow == dataRows[rowIdx + 1]
LastRow == dataRows[rowIdx]

\* The record counts for TLD t: it is not skipped, its tld is t and one of
\* its two prices parsed.
PricedFor(row, t) ==
  /\ ~RowSkipped(row)
  /\ RowTld(row) = t
  /\ (RowNonMember(row) # Null \/ RowMember(row) # Null)

\* The Years of the records among the first k that count for t.
PricedYears(t, k) ==
  {RowYears(dataRows[i]).n : i \in {j \in 1..k : PricedFor(dataRows[j], t)}}

\* The greatest number of a non-empty set.
Greatest(S) == CHOOSE x \in S : \A y \in S : x >= y

\* C11: maxYears of a TLD is the largest Years over its records in which a
\* regular or member price parsed, of any year: all along the loop (0 while
\* there is no such record, so a record without prices never changes it) and
\* in every item of the output.
C11_MaxYearsIsLargestPricedYear ==
  /\ \A t \in DOMAIN parsedData :
       parsedData[t].maxYears = Greatest({0} \cup PricedYears(t, rowIdx))
  /\ \A k \in 1..Len(items) :
       /\ PricedYears(items[k].tld, Len(dataRows)) # {}
       /\ items[k].maxYears =
            [defined |-> TRUE, n |-> Greatest(PricedYears(items[k].tld, Len(dataRows)))]

\* The output holds a TLD with maxYears 2 set by a record of Years 2 whose
\* regular price is absent, although a record of Years 3 without any price
\* came after it.
C11_Witness ==
  /\ rpc = "mapped"
  /\ \E k \in 1..Len(items) :
       /\ items[k].maxYears = [defined |-> TRUE, n |-> 2]
       /\ \E i, j \in 1..Len(dataRows) :
            /\ i < j
            /\ PricedFor(dataRows[i], items[k].tld)
            /\ RowYears(dataRows[i]) = Int32(2)
            /\ RowNonMember(dataRows[i]) = Null
            /\ ~RowSkipped(dataRows[j])
            /\ RowTld(dataRows[j]) = items[k].tld
            /\ RowYears(dataRows[j]) = Int32(3)
            /\ ~PricedFor(dataRows[j], items[k].tld)

\* The three spellings of the label the contract names, in lower case.
StatedLabels ==
  {<<"n", "o", "n", "-", "m", "e", "m", "b", "e", "r", " ", "p", "r", "i", "c", "e">>,
   <<"n", "o", "n", " ", "m", "e", "m", "b", "e", "r", " ", "p", "r", "i", "c", "e">>,
   <<"n", "o", "n", "m", "e", "m", "b", "e", "r", " ", "p", "r", "i", "c", "e">>}

\* The spellings with any one white-space character between 'non' and
\* 'member price' (the tab stands for those that are not the space).
PatternLabels ==
  StatedLabels \cup
    {<<"n", "o", "n", ws, "m", "e", "m", "b", "e", "r", " ", "p", "r", "i", "c", "e">> :
       ws \in {" ", "\t"}}

\* The member price of a record when the member cells in labels stand for
\* 'same as the regular price'.
MemberGiven(row, labels) ==
  IF ToLowerCase(Trim(TextOf(row.member))) \in labels
  THEN ParsePrice(row.price)
  ELSE ParsePrice(Cell(Trim(TextOf(row.member))))

\* A turn of the loop on a year-1 record writes the member price given by
\* labels, and nothing when that price is absent.
MemberWrittenAs(labels) ==
  (rpc = "rows" /\ rowIdx < Len(dataRows) /\ rowIdx' = rowIdx + 1
     /\ ~RowSkipped(NextRow) /\ RowYears(NextRow) = Int32(1))
    => LET t == RowTld(NextRow)
           m == MemberGiven(NextRow, labels)
           before == IF t \in DOMAIN parsedData THEN parsedData[t].member ELSE <<>>
       IN parsedData'[t].member =
            IF m = Null THEN before ELSE (RowOp(NextRow) :> m) @@ before

\* C23 as stated: the member price equals the regular price (absent when that
\* is absent) when the member cell is 'non-member price', 'non member price'
\* or 'nonmember price' in any case, and is parsePrice of the member cell for
\* any other text.
C23_MemberLabelThreeSpellings == [][MemberWrittenAs(StatedLabels)]_vars

\* C23, amended: the member price equals the regular price when the member
\* cell is 'non', then at most one hyphen or white-space character (a tab
\* as well as a space), then 'member price', in any case; it is parsePrice of
\* the member cell for any other text.
C23_MemberLabelPattern == [][MemberWrittenAs(PatternLabels)]_vars

\* Witness of C23: a record whose member cell has a tab in the label took its
\* regular price as member price.
C23_Witness ==
  /\ rpc = "rows" /\ rowIdx = 1
  /\ LastRow.member = Cell(TextNonMemberTab)
  /\ RowNonMember(LastRow) # Null
  /\ parsedData[RowTld(LastRow)].member[RowOp(LastRow)] = RowNonMember(LastRow)

\* Every (tld, band, operation, price) the operation maps hold.
OpCells(entries) ==
  UNION {{<<t, "regular", o, entries[t].regular[o]>> : o \in DOMAIN entries[t].regular}
           \cup {<<t, "member", o, entries[t].member[o]>> : o \in DOMAIN entries[t].member}
         : t \in DOMAIN entries}

\* C12: a turn of the loop on a record whose Years is not 1 leaves every
\* operation map as it was, and every entry of another TLD too: it can change
\* the maxYears of its own TLD only.
C12_OnlyYearOneWritesMaps ==
  [][(rpc = "rows" /\ rowIdx < Len(dataRows) /\ rowIdx' = rowIdx + 1
        /\ RowYears(NextRow) # Int32(1))
       => /\ OpCells(parsedData') = OpCells(parsedData)
          /\ \A t \in DOMAIN parsedData :
               t # RowTld(NextRow) => parsedData'[t] = parsedData[t]]_vars

\* The loop has just taken a record of Years 2 with both prices, for a TLD
\* that had year-1 prices: maxYears is 2 and the maps hold the year-1 prices.
C12_Witness ==
  /\ rpc = "rows"
  /\ rowIdx >= 2
  /\ ~RowSkipped(LastRow)
  /\ RowYears(LastRow) = Int32(2)
  /\ RowNonMember(LastRow) # Null /\ RowMember(LastRow) # Null
  /\ parsedData[RowTld(LastRow)].maxYears = 2
  /\ DOMAIN parsedData[RowTld(LastRow)].regular # {}
  /\ DOMAIN parsedData[RowTld(LastRow)].member # {}

(***************************************************************************)
(* Pricing of the Namecheap adapters: NamecheapRegistrar (parsePricing,    *)
(* map) and namecheapGenerator (getPricingForAction, mergeMaps, generate). *)
(* A response is the sequence of its Price elements, each with the Name of *)
(* its ProductCategory and of its Product and with its own attributes, as  *)
(* the nested regular expressions hand them to the innermost loop.         *)
(* Numbers are counted in hundredths.                                      *)
(***************************************************************************)

TextRegister == <<"R", "E", "G", "I", "S", "T", "E", "R">>
TextRenewAction == <<"R", "E", "N", "E", "W">>
TextTransfer == <<"T", "R", "A", "N", "S", "F", "E", "R">>
TextReactivate == <<"R", "E", "A", "C", "T", "I", "V", "A", "T", "E">>
TextRestore == <<"R", "E", "S", "T", "O", "R", "E">>
TextYear == <<"Y", "E", "A", "R">>
TextSale == <<"s", "a", "l", "e">>
TextNet == <<"n", "e", "t">>

\* ACTIONS
ActionNames == <<TextRegister, TextRenewAction, TextTransfer, TextReactivate>>

\* String.prototype.toUpperCase
ToUpperCase(text) ==
  [i \in 1..Len(text) |->
     IF \E k \in 1..Len(LowerCase) : LowerCase[k] = text[i]
     THEN UpperCase[CHOOSE k \in 1..Len(LowerCase) : LowerCase[k] = text[i]]
     ELSE text[i]]

\* value || '' for an attribute
TextOrEmpty(attr) == IF attr.defined THEN attr.text ELSE <<>>

\* actionToKey; "null" stands for null
ActionToKey(action) ==
  LET a == ToUpperCase(action)
  IN IF a = TextRegister THEN "create"
     ELSE IF a = TextRenewAction THEN "renew"
     ELSE IF a = TextTransfer THEN "transfer"
     ELSE IF a = TextReactivate \/ a = TextRestore THEN "restore"
     ELSE "null"

\* categoryToKey
CategoryToKey(name) ==
  LET a == ToUpperCase(name)
  IN IF a = TextRegister THEN "create"
     ELSE IF a = TextRenewAction THEN "renew"
     ELSE IF a = TextTransfer THEN "transfer"
     ELSE IF a = TextReactivate THEN "restore"
     ELSE "null"

\* categoryToKey(catAttrs.Name || '') || actionToKey(action)
OpKey(category, action) ==
  IF CategoryToKey(TextOrEmpty(category)) # "null"
  THEN CategoryToKey(TextOrEmpty(category))
  ELSE ActionToKey(action)

\* Number(attribute): NaN for a missing attribute
NumberAttr(attr) == IF attr.defined THEN NumberOf(Trim(attr.text)) ELSE NotANumber

\* Number(a ?? b ?? 0)
NumberOr0(a, b) ==
  IF a.defined THEN NumberAttr(a) ELSE IF b.defined THEN NumberAttr(b) ELSE Hundredths(0)

\* Number(a ?? b ?? c ?? 0)
FirstNumberOr0(a, b, c) == IF a.defined THEN NumberAttr(a) ELSE NumberOr0(b, c)

\* Number(a ?? b ?? c)
FirstNumber(a, b, c) ==
  IF a.defined THEN NumberAttr(a) ELSE IF b.defined THEN NumberAttr(b) ELSE NumberAttr(c)

\* Number.isFinite
IsFiniteNumber(value) == value.kind = "number"

\* valBool
ValBool(attr) ==
  /\ attr.defined
  /\ ToLowerCase(Trim(attr.text)) \in {<<"t", "r", "u", "e">>, <<"y", "e", "s">>, <<"1">>}

\* Number(attribute || 0) || 0
YearsAttr(attr) ==
  IF IsFiniteNumber(NumberAttr(attr)) /\ attr.text # <<>> THEN NumberAttr(attr).n ELSE 0

\* The metadata record of one Tld element.
ParseTldMeta(attrs) ==
  [MaxRegisterYears |-> YearsAttr(attrs.MaxRegisterYears),
   MaxRenewYears |-> YearsAttr(attrs.MaxRenewYears),
   MaxTransferYears |-> YearsAttr(attrs.MaxTransferYears),
   IsApiRegisterable |-> ValBool(attrs.IsApiRegisterable)]

\* parseTldMetadata / getTldMetadata: the records of the Tld elements
TldMetadata(metaAttrs) == [t \in DOMAIN metaAttrs |-> ParseTldMeta(metaAttrs[t])]

\* The operations of a TLD in a map, none when the TLD is not a key.
OpsAt(map, tld) == IF tld \in DOMAIN map THEN map[tld] ELSE <<>>

\* if (!map[tld]) map[tld] = {}
EnsureTld(map, tld) == map @@ (tld :> <<>>)

\* if (!map[tld]) map[tld] = {}; map[tld][opKey] = amount
SetCell(map, tld, opKey, amount) ==
  (tld :> ((opKey :> amount) @@ OpsAt(map, tld))) @@ map

\* Writes every cell of source into target as mergeMaps would, except that
\* the operations of a TLD of source replace those target had.
MergeMapsReplace(target, source) == source @@ target

\* mergeMaps: every cell of source is written into target
MergeMaps(target, source) ==
  [t \in DOMAIN source |-> source[t] @@ OpsAt(target, t)] @@ target

NoMaps == [regular |-> <<>>, sale |-> <<>>]

\* The body of the innermost loop of NamecheapRegistrar.parsePricing.
RegistrarPrice(maps, action, element) ==
  LET a == element.attrs
      opKey == OpKey(element.category, action)
      duration == NumberOr0(a.Duration, a.DurationRangeStart)
      amount == FirstNumberOr0(a.Price, a.RegularPrice, a.RetailPrice)
      priceType == ToLowerCase(TextOrEmpty(a.PriceType))
  IN IF opKey = "null" \/ TextOrEmpty(element.tld) = <<>> THEN maps
     ELSE IF IsFiniteNumber(duration) /\ duration.n # 0 /\ duration # Hundredths(100) THEN maps
     ELSE IF ~IsFiniteNumber(amount) \/ amount.n <= 0 THEN maps
     ELSE IF priceType = TextSale
          THEN [maps EXCEPT !.sale = SetCell(maps.sale, element.tld.text, opKey, amount.n)]
          ELSE [maps EXCEPT !.regular = SetCell(maps.regular, element.tld.text, opKey, amount.n)]

\* The body of the innermost loop of getPricingForAction.
GeneratorPrice(maps, action, element) ==
  LET a == element.attrs
      opKey == OpKey(element.category, action)
      duration == NumberOr0(a.Duration, a.DurationRangeStart)
      durationType == ToUpperCase(TextOrEmpty(a.DurationType))
      userPrice == NumberAttr(a.YourPrice)
      retail == FirstNumber(a.RegularPrice, a.RetailPrice, a.Price)
      tld == element.tld.text
  IN IF opKey = "null" \/ TextOrEmpty(element.tld) = <<>> THEN maps
     ELSE IF duration # Hundredths(100) \/ (durationType # <<>> /\ durationType # TextYear)
          THEN maps
     ELSE [sale |-> IF IsFiniteNumber(userPrice)
                    THEN SetCell(maps.sale, tld, opKey, userPrice.n)
                    ELSE EnsureTld(maps.sale, tld),
           regular |-> IF IsFiniteNumber(retail)
                       THEN SetCell(maps.regular, tld, opKey, retail.n)
                       ELSE EnsureTld(maps.regular, tld)]

\* The Price elements of a response from the k-th on, taken in turn.
RECURSIVE PricesFrom(_, _, _, _, _)
PricesFrom(adapter, maps, action, elements, k) ==
  IF k > Len(elements) THEN maps
  ELSE PricesFrom(adapter,
                  IF adapter = "registrar" THEN RegistrarPrice(maps, action, elements[k])
                  ELSE GeneratorPrice(maps, action, elements[k]),
                  action, elements, k + 1)

\* getPricingForAction: the maps of one action's response
GetPricingForAction(action, elements) == PricesFrom("generator", NoMaps, action, elements, 1)

\* One pass of the loop over ACTIONS: parsePricing writes into the maps it
\* returns, generate merges the maps of getPricingForAction into its own.
ActionStep(adapter, maps, action, elements) ==
  IF adapter = "registrar" THEN PricesFrom("registrar", maps, action, elements, 1)
  ELSE LET pricing == GetPricingForAction(action, elements)
       IN [sale |-> MergeMaps(maps.sale, pricing.sale),
           regular |-> MergeMaps(maps.regular, pricing.regular)]

\* The loop over ACTIONS of parsePricing, one action at a time.
ParsePricingStep ==
  /\ ncImpl = "registrar"
  /\ ncpc = "pricing"
  /\ ncIdx < Len(ActionNames)
  /\ LET maps == ActionStep("registrar", [regular |-> ncRegular, sale |-> ncSale],
                            ActionNames[ncIdx + 1], ncResponses[ncIdx + 1])
     IN /\ ncRegular' = maps.regular
        /\ ncSale' = maps.sale
  /\ ncIdx' = ncIdx + 1
  /\ ncpc' = IF ncIdx + 1 = Len(ActionNames) THEN "merged" ELSE "pricing"
  /\ UNCHANGED <<ncImpl, ncResponses, ncMeta, ncOut>>
  /\ UNCHANGED <<cacheVars, batchVars, logVars, unifyVars, sheetVars, priceVars, rowVars, niraVars, runVars, fwVars, legacyVars, currencyVars>>

\* The loop over ACTIONS of generate, one action at a time.
GenerateStep ==
  /\ ncImpl = "generator"
  /\ ncpc = "pricing"
  /\ ncIdx < Len(ActionNames)
  /\ LET maps == ActionStep("generator", [regular |-> ncRegular, sale |-> ncSale],
                            ActionNames[ncIdx + 1], ncResponses[ncIdx + 1])
     IN /\ ncRegular' = maps.regular
        /\ ncSale' = maps.sale
  /\ ncIdx' = ncIdx + 1
  /\ ncpc' = IF ncIdx + 1 = Len(ActionNames) THEN "merged" ELSE "pricing"
  /\ UNCHANGED <<ncImpl, ncResponses, ncMeta, ncOut>>
  /\ UNCHANGED <<cacheVars, batchVars, logVars, unifyVars, sheetVars, priceVars, rowVars, niraVars, runVars, fwVars, legacyVars, currencyVars>>

\* meta?.MaxRegisterYears || meta?.MaxRenewYears || undefined
RegistrarMaxYears(meta, tld) ==
  IF tld \in DOMAIN meta /\ meta[tld].MaxRegisterYears # 0
  THEN [defined |-> TRUE, n |-> meta[tld].MaxRegisterYears]
  ELSE IF tld \in DOMAIN meta /\ meta[tld].MaxRenewYears # 0
  THEN [defined |-> TRUE, n |-> meta[tld].MaxRenewYears]
  ELSE [defined |-> FALSE, n |-> 0]

\* The bands NamecheapRegistrar.map pushes for a TLD.
RegistrarBands(regular, sale, tld) ==
  (IF tld \in DOMAIN regular
   THEN <<[id |-> "regular", operations |-> regular[tld]]>> ELSE <<>>)
  \o (IF tld \in DOMAIN sale
      THEN <<[id |-> "sale", operations |-> sale[tld]]>> ELSE <<>>)

\* The items NamecheapRegistrar.map pushes for the keys from the k-th on.
RECURSIVE RegistrarItems(_, _, _, _, _)
RegistrarItems(meta, regular, sale, keys, k) ==
  IF k > Len(keys) THEN <<>>
  ELSE LET rest == RegistrarItems(meta, regular, sale, keys, k + 1)
           bands == RegistrarBands(regular, sale, keys[k])
       IN IF bands = <<>> THEN rest
          ELSE <<[tld |-> keys[k], maxYears |-> RegistrarMaxYears(meta, keys[k]),
                  bands |-> bands]>> \o rest

\* NamecheapRegistrar.map
NamecheapMap ==
  /\ ncImpl = "registrar"
  /\ ncpc = "merged"
  /\ ncOut' = RegistrarItems(TldMetadata(ncMeta), ncRegular, ncSale,
                             SortedKeys(DOMAIN ncMeta \cup DOMAIN ncRegular \cup DOMAIN ncSale), 1)
  /\ ncpc' = "done"
  /\ UNCHANGED <<ncImpl, ncResponses, ncMeta, ncIdx, ncRegular, ncSale>>
  /\ UNCHANGED <<cacheVars, batchVars, logVars, unifyVars, sheetVars, priceVars, rowVars, niraVars, runVars, fwVars, legacyVars, currencyVars>>

\* The TLDs that get an entry in the data of generate.
GeneratorKept(meta, regular, sale) ==
  {t \in DOMAIN sale \cup DOMAIN regular :
     /\ ~(t \in DOMAIN meta /\ ~meta[t].IsApiRegisterable)
     /\ (DOMAIN OpsAt(sale, t) # {} \/ DOMAIN OpsAt(regular, t) # {})}

\* Math.max(info.MaxRegisterYears || 0, info.MaxRenewYears || 0, info.MaxTransferYears || 0)
GeneratorMaxYears(meta, tld) ==
  IF tld \in DOMAIN meta
  THEN Max(meta[tld].MaxRegisterYears, Max(meta[tld].MaxRenewYears, meta[tld].MaxTransferYears))
  ELSE 0

\* The data of namecheapGenerator.generate
GenerateData ==
  /\ ncImpl = "generator"
  /\ ncpc = "merged"
  /\ ncOut' = [t \in GeneratorKept(TldMetadata(ncMeta), ncRegular, ncSale) |->
                 [maxYears |-> GeneratorMaxYears(TldMetadata(ncMeta), t),
                  regular |-> OpsAt(ncRegular, t),
                  sale |-> OpsAt(ncSale, t)]]
  /\ ncpc' = "done"
  /\ UNCHANGED <<ncImpl, ncResponses, ncMeta, ncIdx, ncRegular, ncSale>>
  /\ UNCHANGED <<cacheVars, batchVars, logVars, unifyVars, sheetVars, priceVars, rowVars, niraVars, runVars, fwVars, legacyVars, currencyVars>>

\* A Price element: the Name of its ProductCategory, the Name of its Product
\* and its Duration, DurationType, Price, YourPrice and PriceType.
PriceElement(category, tld, duration, durationType, price, yourPrice, priceType) ==
  [category |-> category, tld |-> Cell(tld),
   attrs |-> [Duration |-> duration, DurationRangeStart |-> Undefined,
              DurationType |-> durationType, Price |-> price,
              RegularPrice |-> Undefined, RetailPrice |-> Undefined,
              YourPrice |-> yourPrice, PriceType |-> priceType]]

\* The first element of the REGISTER response: any duration and unit, in a
\* category without a Name.
FirstElements ==
  {PriceElement(Undefined, TextCom, duration, durationType, Cell(<<price>>), Undefined, Undefined) :
     duration \in {Undefined, Cell(<<"1">>), Cell(<<"2">>)},
     durationType \in {Undefined, Cell(<<"y", "e", "a", "r">>), Cell(<<"M", "O", "N", "T", "H">>)},
     price \in {"9", "5"}}

\* What may follow it in the REGISTER response.
SecondElements ==
  {<<>>,
   <<PriceElement(Cell(TextRegister), TextCom, Cell(<<"1">>), Cell(TextYear),
                  Cell(<<"5">>), Undefined, Undefined)>>,
   <<PriceElement(Cell(<<"r", "e", "g", "i", "s", "t", "e", "r">>), TextNet, Cell(<<"1">>),
                  Undefined, Cell(<<"9">>), Cell(<<"4">>), Undefined)>>}

\* The RENEW response: nothing, a renewal, a registration price, a sale price.
RenewResponses ==
  {<<>>,
   <<PriceElement(Cell(TextRenewAction), TextCom, Cell(<<"1">>), Cell(TextYear),
                  Cell(<<"5">>), Undefined, Undefined)>>,
   <<PriceElement(Cell(TextRegister), TextCom, Cell(<<"1">>), Cell(TextYear),
                  Cell(<<"9">>), Undefined, Undefined)>>,
   <<PriceElement(Cell(TextRenewAction), TextNet, Cell(<<"1">>), Undefined,
                  Cell(<<"3">>), Cell(<<"3">>), Cell(<<"S", "a", "l", "e">>))>>}

\* The TRANSFER response: nothing, or a price in a category without a key.
TransferResponses ==
  {<<>>,
   <<PriceElement(Cell(<<"m", "i", "s", "c">>), TextCom, Cell(<<"1">>), Undefined,
                  Cell(<<"7">>), Cell(<<"6">>), Undefined)>>}

\* The attributes of a Tld element.
TldAttrs(registerable, register, renew, transfer) ==
  [IsApiRegisterable |-> registerable, MaxRegisterYears |-> register,
   MaxRenewYears |-> renew, MaxTransferYears |-> transfer]

ComAttrs ==
  {TldAttrs(Cell(<<"t", "r", "u", "e">>), Cell(<<"2">>), Cell(<<"1", "0">>), Cell(<<"5">>)),
   TldAttrs(Cell(<<"f", "a", "l", "s", "e">>), Cell(<<"1">>), Cell(<<"1">>), Undefined)}

NetAttrs ==
  {TldAttrs(Undefined, Undefined, Cell(<<"3">>), Cell(<<"1">>))}

\* getTldList: com and net each with or without a Tld element
MetaAttrs ==
  {[t \in tlds |-> IF t = TextCom THEN com ELSE net] :
     tlds \in SUBSET {TextCom, TextNet}, com \in ComAttrs, net \in NetAttrs}

NcInit ==
  /\ ncImpl \in {"registrar", "generator"}
  /\ \E first \in FirstElements, second \in SecondElements,
        renew \in RenewResponses, transfer \in TransferResponses :
       ncResponses = <<<<first>> \o second, renew, transfer, <<>>>>
  /\ ncMeta \in MetaAttrs
  /\ ncIdx = 0
  /\ ncRegular = <<>>
  /\ ncSale = <<>>
  /\ ncpc = "pricing"
  /\ ncOut = <<>>

InitNamecheap ==
  CacheIdle /\ BatchIdle /\ LogIdle /\ UnifyIdle /\ SheetIdle /\ PriceIdle /\ RowIdle /\ NcInit /\ NiraIdle /\ RunIdle /\ FwIdle /\ LegacyIdle /\ CurrencyIdle

NcNext ==
  \/ ParsePricingStep
  \/ GenerateStep
  \/ NamecheapMap
  \/ GenerateData

SpecNamecheap == InitNamecheap /\ [][NcNext]_vars

(***************************************************************************)
(* Properties of the Namecheap pricing.                                    *)
(***************************************************************************)

\* The Price elements of the responses processed so far, each with the
\* action of its response.
SeenElements ==
  UNION {{[action |-> ActionNames[i], element |-> ncResponses[i][k]] :
            k \in 1..Len(ncResponses[i])} : i \in 1..ncIdx}

\* The element names a duration of 1 and, if it names a unit, the year.
OneYear(element) ==
  LET a == element.attrs
  IN /\ a.Duration.defined \/ a.DurationRangeStart.defined
     /\ NumberOr0(a.Duration, a.DurationRangeStart) = Hundredths(100)
     /\ ~a.DurationType.defined
          \/ ToUpperCase(a.DurationType.text) \in {<<>>, TextYear}

\* The amounts the price attributes of an element give.
AmountsOf(element) ==
  {NumberAttr(attr).n :
     attr \in {c \in {element.attrs.Price, element.attrs.RegularPrice,
                      element.attrs.RetailPrice, element.attrs.YourPrice} :
                 IsFiniteNumber(NumberAttr(c))}}

\* The cell (tld, op) of a map holds an amount of a one-year element seen
\* for that TLD and operation.
FromOneYear(map, tld, op) ==
  \E seen \in SeenElements :
    /\ seen.element.tld = Cell(tld)
    /\ OpKey(seen.element.category, seen.action) = op
    /\ OneYear(seen.element)
    /\ map[tld][op] \in AmountsOf(seen.element)

\* C13: every cell of the regular and sale maps comes from a Price element
\* whose duration is 1 and whose duration unit, when present, is the year;
\* elements of duration 2 or more, without a duration attribute or with
\* another unit contribute nothing.
C13_OnlyOneYearPricesKept ==
  /\ \A t \in DOMAIN ncRegular : \A o \in DOMAIN ncRegular[t] : FromOneYear(ncRegular, t, o)
  /\ \A t \in DOMAIN ncSale : \A o \in DOMAIN ncSale[t] : FromOneYear(ncSale, t, o)

\* The TLDs of the output: of the items of map, of the data of generate.
OutputTlds ==
  IF ncImpl = "registrar" THEN {ncOut[k].tld : k \in 1..Len(ncOut)} ELSE DOMAIN ncOut

\* Some price was extracted for the TLD.
HasPrices(tld) == DOMAIN OpsAt(ncRegular, tld) \cup DOMAIN OpsAt(ncSale, tld) # {}

\* C14: a TLD whose metadata has IsApiRegisterable parsed as false is not
\* in the output, prices or not; a TLD with prices and no metadata entry is
\* in the output.
C14_NonRegisterableLeftOut ==
  ncpc = "done" =>
    \A t \in DOMAIN ncMeta \cup DOMAIN ncRegular \cup DOMAIN ncSale :
      /\ (t \in DOMAIN ncMeta /\ ~ValBool(ncMeta[t].IsApiRegisterable)) => t \notin OutputTlds
      /\ (HasPrices(t) /\ t \notin DOMAIN ncMeta) => t \in OutputTlds

\* The largest of the three max-year fields of the TLD's metadata, 0 for a
\* TLD without metadata.
LargestMaxYears(tld) ==
  LET meta == TldMetadata(ncMeta)
  IN IF tld \in DOMAIN meta
     THEN Greatest({meta[tld].MaxRegisterYears, meta[tld].MaxRenewYears,
                    meta[tld].MaxTransferYears})
     ELSE 0

\* C24: every TLD of the output has maxYears equal to the largest of
\* MaxRegisterYears, MaxRenewYears and MaxTransferYears of its metadata, 0
\* when it has no metadata (an item without maxYears is read as 0).
C24_MaxYearsIsLargestField ==
  ncpc = "done" =>
    IF ncImpl = "registrar"
    THEN \A k \in 1..Len(ncOut) :
           (IF ncOut[k].maxYears.defined THEN ncOut[k].maxYears.n ELSE 0)
             = LargestMaxYears(ncOut[k].tld)
    ELSE \A t \in DOMAIN ncOut : ncOut[t].maxYears = LargestMaxYears(t)

\* The orders in which the four actions can be processed.
Orders ==
  {o \in [1..Len(ActionNames) -> 1..Len(ActionNames)] :
     \A i, j \in 1..Len(ActionNames) : o[i] = o[j] => i = j}

\* The maps after the actions order[k], order[k + 1], ... are processed in
\* turn, each as the loop over the actions processes it.
RECURSIVE MergedFrom(_, _, _)
MergedFrom(maps, order, k) ==
  IF k > Len(ActionNames) THEN maps
  ELSE MergedFrom(ActionStep(ncImpl, maps, ActionNames[order[k]], ncResponses[order[k]]),
                  order, k + 1)

\* The maps one action's response gives on its own.
PerAction(i) == PricesFrom(ncImpl, NoMaps, ActionNames[i], ncResponses[i], 1)

\* The (tld, operation) cells of a map.
CellsOf(map) == UNION {{<<t, o>> : o \in DOMAIN map[t]} : t \in DOMAIN map}

\* The maps of the four actions, each on its own.
PerActionMaps == <<PerAction(1), PerAction(2), PerAction(3), PerAction(4)>>

\* The last action of an order whose own map has the cell.
LastWriter(per, order, band, cell) ==
  LET writers == {k \in 1..Len(ActionNames) : cell \in CellsOf(per[order[k]][band])}
  IN order[CHOOSE k \in writers : \A other \in writers : other <= k]

\* The merged band has the TLDs and the cells of the four per-action maps
\* together, each cell with the value of the last action of the order that
\* has it.
UnionLastWins(per, merged, order, band) ==
  /\ DOMAIN merged[band] = UNION {DOMAIN per[i][band] : i \in 1..Len(ActionNames)}
  /\ CellsOf(merged[band]) = UNION {CellsOf(per[i][band]) : i \in 1..Len(ActionNames)}
  /\ \A cell \in CellsOf(merged[band]) :
       merged[band][cell[1]][cell[2]]
         = per[LastWriter(per, order, band, cell)][band][cell[1]][cell[2]]

\* No two actions give different values for one cell.
ActionsAgree(per) ==
  \A band \in {"regular", "sale"} : \A i, j \in 1..Len(ActionNames) :
    \A cell \in CellsOf(per[i][band]) \cap CellsOf(per[j][band]) :
      per[i][band][cell[1]][cell[2]] = per[j][band][cell[1]][cell[2]]

\* C15 as stated: the merged regular and sale maps are the same for every
\* order in which the four per-action results are merged.
C15_MergeOrderIndependent ==
  ncpc = "merged" =>
    \A order \in Orders :
      MergedFrom(NoMaps, order, 1) = [regular |-> ncRegular, sale |-> ncSale]

\* C15, amended: in every order the merge is a union per (tld, operation)
\* cell that removes no cell, and a cell that several actions give holds the
\* value of the one processed last; the merged maps are the same for every
\* order when no two actions give different values for one cell.
C15_MergeIsUnionLastWins ==
  ncpc = "merged" =>
    LET per == PerActionMaps
        current == [regular |-> ncRegular, sale |-> ncSale]
        agree == ActionsAgree(per)
    IN /\ MergedFrom(NoMaps, [i \in 1..Len(ActionNames) |-> i], 1) = current
       /\ \A order \in Orders :
            LET merged == MergedFrom(NoMaps, order, 1)
            IN /\ UnionLastWins(per, merged, order, "regular")
               /\ UnionLastWins(per, merged, order, "sale")
               /\ agree => merged = current

\* Two actions gave one cell with different values, a third cell came from
\* another action, and all four are merged.
C15_Witness ==
  /\ ncpc = "merged"
  /\ ncImpl = "generator"
  /\ ~ActionsAgree(PerActionMaps)
  /\ \E t \in DOMAIN ncRegular : Cardinality(DOMAIN ncRegular[t]) >= 2

(***************************************************************************)
(* The NIRA adapters: NiraRegistrar (parse, map, under getPricelist) and   *)
(* the two niraGenerator.generate.  Each turns a fixed table of NGN prices *)
(* into USD with the rate found in the exchange data.  A rate is counted   *)
(* in hundredths, a USD price too.                                         *)
(***************************************************************************)

\* Whole NGN per USD of the rates tried, at most
MaxRate == 8

\* JavaScript values a rate can be.
UndefinedValue == [kind |-> "undefined", n |-> 0, text |-> <<>>]
NaNValue == [kind |-> "NaN", n |-> 0, text |-> <<>>]
InfinityValue == [kind |-> "Infinity", n |-> 1, text |-> <<>>]
MinusInfinityValue == [kind |-> "Infinity", n |-> 0 - 1, text |-> <<>>]
NumberValue(n) == [kind |-> "number", n |-> n, text |-> <<>>]
StringValue(text) == [kind |-> "string", n |-> 0, text |-> text]

\* Number(value)
ToNumber(value) ==
  IF value.kind = "undefined" THEN NaNValue
  ELSE IF value.kind = "string"
       THEN IF NumberOf(Trim(value.text)).kind = "number"
            THEN NumberValue(NumberOf(Trim(value.text)).n)
            ELSE NaNValue
       ELSE value

\* Number.isFinite(value): no conversion, a string is not finite
NumberIsFinite(value) == value.kind = "number"

\* !value
Falsy(value) ==
  \/ value.kind \in {"undefined", "NaN"}
  \/ value.kind = "number" /\ value.n = 0
  \/ value.kind = "string" /\ value.text = <<>>

\* The NGN_PRICES tables of the registrar and of the two generators.
NGN_PRICES ==
  [registrar |-> [ng |-> 15000, com_ng |-> 7000, org_ng |-> 7000, name_ng |-> 400],
   generator |-> [ng |-> 15000, com_ng |-> 7000, org_ng |-> 7000, name_ng |-> 400],
   generatorNgn |-> [ng |-> 13000, com_ng |-> 6000, org_ng |-> 6000, net_ng |-> 6000,
                     mobi_ng |-> 6000, i_ng |-> 6000, sch_ng |-> 6000, edu_ng |-> 6000,
                     name_ng |-> 400]]

\* The operations each gives the USD price to.
NiraOperations ==
  [registrar |-> {"create", "renew"}, generator |-> {"create", "renew"},
   generatorNgn |-> {"create", "renew", "transfer"}]

\* Math.round(p / q) for integers p, q: the nearest integer, halves upwards
RoundQuotient(p, q) ==
  IF q > 0 THEN (2 * p + q) \div (2 * q) ELSE (0 - (2 * p + q)) \div (0 - 2 * q)

\* round2(ngnPrice / rate), in hundredths, for a rate in hundredths
Round2(ngnPrice, rate) == RoundQuotient(ngnPrice * 10000, rate)

\* The USD prices of a table at a rate.
UsdPrices(adapter, rate) ==
  [tld \in DOMAIN NGN_PRICES[adapter] |->
     [op \in NiraOperations[adapter] |-> Round2(NGN_PRICES[adapter][tld], rate)]]

\* NiraRegistrar.parse under getPricelist: the rate, or the error thrown,
\* after which getPricelist neither maps nor writes.
NiraParse ==
  /\ niraImpl = "registrar"
  /\ niraPc = "fetched"
  /\ LET rate == ToNumber(niraRate)
     IN IF ~NumberIsFinite(rate) \/ rate.n <= 0
        THEN /\ niraPc' = "failed"
             /\ UNCHANGED ngnPerUsd
        ELSE /\ niraPc' = "parsed"
             /\ ngnPerUsd' = rate.n
  /\ UNCHANGED <<niraImpl, niraRate, niraOut, niraCache>>
  /\ UNCHANGED <<cacheVars, batchVars, logVars, unifyVars, sheetVars, priceVars, rowVars, ncVars, runVars, fwVars, legacyVars, currencyVars>>

\* NiraRegistrar.map, then the cache.write and the return of getPricelist.
NiraMap ==
  /\ niraImpl = "registrar"
  /\ niraPc = "parsed"
  /\ niraOut' = UsdPrices("registrar", ngnPerUsd)
  /\ niraCache' = UsdPrices("registrar", ngnPerUsd)
  /\ niraPc' = "done"
  /\ UNCHANGED <<niraImpl, niraRate, ngnPerUsd>>
  /\ UNCHANGED <<cacheVars, batchVars, logVars, unifyVars, sheetVars, priceVars, rowVars, ncVars, runVars, fwVars, legacyVars, currencyVars>>

\* niraGenerator.generate, from the rate of the NGN entry on.
NiraGenerate ==
  /\ niraImpl \in {"generator", "generatorNgn"}
  /\ niraPc = "fetched"
  /\ IF Falsy(niraRate) \/ ~NumberIsFinite(niraRate)
     THEN /\ niraPc' = "failed"
          /\ UNCHANGED <<ngnPerUsd, niraOut>>
     ELSE /\ niraPc' = "done"
          /\ ngnPerUsd' = niraRate.n
          /\ niraOut' = UsdPrices(niraImpl, niraRate.n)
  /\ UNCHANGED <<niraImpl, niraRate, niraCache>>
  /\ UNCHANGED <<cacheVars, batchVars, logVars, unifyVars, sheetVars, priceVars, rowVars, ncVars, runVars, fwVars, legacyVars, currencyVars>>

\* The rates the exchange data can hold.
Rates ==
  {UndefinedValue, NaNValue, InfinityValue, MinusInfinityValue,
   StringValue(<<"5">>), StringValue(<<"-", "5">>), StringValue(<<"n", "a">>)}
    \cup {NumberValue(100 * k) : k \in (0 - MaxRate)..MaxRate}
    \cup {NumberValue(150025)}

NiraInit ==
  /\ niraImpl \in {"registrar", "generator", "generatorNgn"}
  /\ niraRate \in Rates
  /\ ngnPerUsd = 0
  /\ niraPc = "fetched"
  /\ niraOut = <<>>
  /\ niraCache = <<>>

InitNira ==
  CacheIdle /\ BatchIdle /\ LogIdle /\ UnifyIdle /\ SheetIdle /\ PriceIdle /\ RowIdle /\ NcIdle /\ NiraInit /\ RunIdle /\ FwIdle /\ LegacyIdle /\ CurrencyIdle

NiraNext ==
  \/ NiraParse
  \/ NiraMap
  \/ NiraGenerate

SpecNira == InitNira /\ [][NiraNext]_vars

\* The rate is missing, not finite, zero or negative.
UnusableRate ==
  \/ ToNumber(niraRate).kind \in {"NaN", "Infinity"}
  \/ ToNumber(niraRate).kind = "number" /\ ToNumber(niraRate).n <= 0

\* C16: with a rate that is missing, not finite, zero or negative the
\* adapter fails: it returns no prices and writes no cache entry, at no
\* point of its run.
C16_UnusableRateFails ==
  UnusableRate =>
    /\ niraPc \in {"fetched", "failed"}
    /\ niraOut = <<>>
    /\ niraCache = <<>>

(***************************************************************************)
(* Runs of the command line: generatePricelists with cacheDir = outDir,    *)
(* then writePricelistsToDirectory into outDir.  The cache file of a       *)
(* registrar is <cacheDir>/<key>.json with key <registrarId>-prices, the   *)
(* file written for it is <outDir>/<registrarId>-prices.json: one file.    *)
(***************************************************************************)

\* Runs of the command line, at most
MaxRuns == 2

RunRegistrars == {"namecheap", "nira"}

\* JSON.stringify(result) of a RegistrarPricelist: an object with fetchedAt
\* and without cachedAt
PricelistFile(pricelist) == FileNoTimestamp(pricelist)

\* run: the ttl and the registrars of the arguments; generatePricelists
\* starts a getPricelist for each.
RunStart(ttl, selected) ==
  /\ runPc = "idle"
  /\ runCount < MaxRuns
  /\ runCount' = runCount + 1
  /\ runTtl' = ttl
  /\ runTask' = [r \in RunRegistrars |-> IF r \in selected THEN "pending" ELSE "unselected"]
  /\ runResults' = [r \in RunRegistrars |-> NoPricelist]
  /\ runPc' = "generating"
  /\ UNCHANGED <<runFiles, runNow, runLast>>
  /\ UNCHANGED <<cacheVars, batchVars, logVars, unifyVars, sheetVars, priceVars, rowVars, ncVars, niraVars, fwVars, legacyVars, currencyVars>>

\* registrar.getPricelist(ttl) of one task: the cached payload, or a fresh
\* pricelist written to the cache, or an error of the read or the pipeline,
\* which rejects the Promise.all of generatePricelists.
RunGetPricelist(r) ==
  /\ runPc \in {"generating", "rejected"}
  /\ runTask[r] = "pending"
  /\ LET read == CacheRead(runFiles[r])
     IN IF read.threw
        THEN /\ runTask' = [runTask EXCEPT ![r] = "failed"]
             /\ runPc' = "rejected"
             /\ UNCHANGED <<runFiles, runResults, runLast>>
        ELSE IF ShouldReuse(runTtl, read.entry, runNow)
        THEN /\ runTask' = [runTask EXCEPT ![r] = "done"]
             /\ runResults' = [runResults EXCEPT ![r] = read.entry.payload]
             /\ UNCHANGED <<runFiles, runPc, runLast>>
        ELSE \E ok \in BOOLEAN, d \in Data :
               IF ok
               THEN LET fresh == Touch(Pricelist(runNow, d), runNow)
                        entry == [cachedAt |-> fresh.fetchedAt, payload |-> fresh]
                    IN /\ runFiles' = [runFiles EXCEPT ![r] = CacheWrite(entry)]
                       /\ runLast' = [runLast EXCEPT ![r] =
                                        [present |-> TRUE, cachedAt |-> entry.cachedAt,
                                         payload |-> entry.payload]]
                       /\ runResults' = [runResults EXCEPT ![r] = fresh]
                       /\ runTask' = [runTask EXCEPT ![r] = "done"]
                       /\ UNCHANGED runPc
               ELSE /\ runTask' = [runTask EXCEPT ![r] = "failed"]
                    /\ runPc' = "rejected"
                    /\ UNCHANGED <<runFiles, runResults, runLast>>
  /\ UNCHANGED <<runNow, runTtl, runCount>>
  /\ UNCHANGED <<cacheVars, batchVars, logVars, unifyVars, sheetVars, priceVars, rowVars, ncVars, niraVars, fwVars, legacyVars, currencyVars>>

\* writePricelistsToDirectory(results, outDir), once generatePricelists has
\* every result: one file per result.
WritePricelistsToDirectory ==
  /\ runPc = "generating"
  /\ \A r \in RunRegistrars : runTask[r] \in {"unselected", "done"}
  /\ runFiles' = [r \in RunRegistrars |->
                    IF runTask[r] = "done" THEN PricelistFile(runResults[r]) ELSE runFiles[r]]
  /\ runPc' = "idle"
  /\ UNCHANGED <<runNow, runTtl, runTask, runResults, runLast, runCount>>
  /\ UNCHANGED <<cacheVars, batchVars, logVars, unifyVars, sheetVars, priceVars, rowVars, ncVars, niraVars, fwVars, legacyVars, currencyVars>>

\* A rejected run ends when its last task has settled; nothing is written
\* to the directory.
RunFails ==
  /\ runPc = "rejected"
  /\ \A r \in RunRegistrars : runTask[r] # "pending"
  /\ runPc' = "idle"
  /\ UNCHANGED <<runFiles, runNow, runTtl, runTask, runResults, runLast, runCount>>
  /\ UNCHANGED <<cacheVars, batchVars, logVars, unifyVars, sheetVars, priceVars, rowVars, ncVars, niraVars, fwVars, legacyVars, currencyVars>>

\* Time passes between two runs.
RunTick ==
  /\ runPc = "idle"
  /\ runNow < MaxTime
  /\ runNow' = runNow + 1
  /\ UNCHANGED <<runFiles, runTtl, runTask, runResults, runPc, runLast, runCount>>
  /\ UNCHANGED <<cacheVars, batchVars, logVars, unifyVars, sheetVars, priceVars, rowVars, ncVars, niraVars, fwVars, legacyVars, currencyVars>>

\* The ttl arguments of the runs.
RunTtls == {TtlInfinity, TtlNum(0), TtlNum(1)}

RunInit ==
  /\ runFiles \in [RunRegistrars -> {FileAbsent, FileUnreadable, FileEntry(0, Pricelist(0, 1))}]
  /\ runNow = 0
  /\ runTtl = TtlInfinity
  /\ runTask = [r \in RunRegistrars |-> "unselected"]
  /\ runResults = [r \in RunRegistrars |-> NoPricelist]
  /\ runPc = "idle"
  /\ runLast = [r \in RunRegistrars |-> NoEntry]
  /\ runCount = 0

InitRuns ==
  CacheIdle /\ BatchIdle /\ LogIdle /\ UnifyIdle /\ SheetIdle /\ PriceIdle /\ RowIdle /\ NcIdle /\ NiraIdle /\ RunInit /\ FwIdle /\ LegacyIdle /\ CurrencyIdle

RunNext ==
  \/ \E ttl \in RunTtls, selected \in SUBSET RunRegistrars \ {{}} : RunStart(ttl, selected)
  \/ \E r \in RunRegistrars : RunGetPricelist(r)
  \/ WritePricelistsToDirectory
  \/ RunFails
  \/ RunTick

SpecRuns == InitRuns /\ [][RunNext]_vars

\* C18: between two runs, cache.read of a registrar returns the CacheEntry
\* its getPricelist wrote last; generatePricelists and
\* writePricelistsToDirectory leave the cache file as getPricelist wrote it.
C18_CacheFileKeptByRuns ==
  \A r \in RunRegistrars :
    (runPc = "idle" /\ runLast[r].present)
      => /\ ~CacheRead(runFiles[r]).threw
         /\ CacheRead(runFiles[r]).entry = runLast[r]

(***************************************************************************)
(* fetchWithRetry, called for each request of a generator run in turn      *)
(* (fetchXml of the Namecheap generator), with the abort signal of the run.*)
(***************************************************************************)

\* The retries option, at most
MaxRetries == 2

\* Requests of a generator run, at most
MaxRequests == 2

\* What a fetch call settles with: a response (ok or not), or an error.
OkResponse(k) == [kind |-> "ok", attempt |-> k]
HttpError(k) == [kind |-> "http", attempt |-> k]
NetworkError(k) == [kind |-> "network", attempt |-> k]
AbortError(k) == [kind |-> "abort", attempt |-> k]
NoError == [kind |-> "undefined", attempt |-> 0 - 1]

\* The loop test taken once more than the option allows.
LoopTestOneMore(k, retries) == k <= retries + 1

\* for (let attempt = 0; attempt <= retries; ...): the loop goes on
LoopTest(k, retries) == k <= retries

\* if (attempt >= retries) break
IsLastAttempt(k, retries) == k >= retries

\* res.ok
ResOk(res) == res.kind = "ok"

\* delay without the signal.
DelayIgnoresSignal(signal, aborted) == FALSE

\* signal.aborted, as delay and its abort listener see it
DelayAborted(signal, aborted) == signal /\ aborted

\* fetchWithRetry is called for the next request of the run.
FwCall ==
  /\ fwRun = "running"
  /\ fwPc = "call"
  /\ fwReq' = fwReq + 1
  /\ fwAttempt' = 0
  /\ fwCalls' = <<>>
  /\ fwLastErr' = NoError
  /\ fwPc' = "loop"
  /\ UNCHANGED <<fwRetries, fwSignal, fwAborted, fwAbortAt, fwSettled, fwRun>>
  /\ UNCHANGED <<cacheVars, batchVars, logVars, unifyVars, sheetVars, priceVars, rowVars, ncVars, niraVars, runVars, legacyVars, currencyVars>>

\* The test of the loop: another attempt, or throw lastErr.
FwLoop ==
  /\ fwPc = "loop"
  /\ IF LoopTest(fwAttempt, fwRetries)
     THEN /\ fwPc' = "fetch"
          /\ UNCHANGED <<fwSettled, fwRun>>
     ELSE /\ fwPc' = "rejected"
          /\ fwSettled' = fwLastErr
          /\ fwRun' = "failed"
  /\ UNCHANGED <<fwRetries, fwSignal, fwAborted, fwAbortAt, fwReq, fwAttempt, fwCalls,
                 fwLastErr>>
  /\ UNCHANGED <<cacheVars, batchVars, logVars, unifyVars, sheetVars, priceVars, rowVars, ncVars, niraVars, runVars, legacyVars, currencyVars>>

\* await fetch(url, {headers, signal}): the call; with an aborted signal no
\* request goes out.
FwFetch ==
  /\ fwPc = "fetch"
  /\ fwPc' = "inflight"
  /\ fwCalls' = Append(fwCalls, [sent |-> ~(fwSignal /\ fwAborted), outcome |-> NoError])
  /\ UNCHANGED <<fwRetries, fwSignal, fwAborted, fwAbortAt, fwReq, fwAttempt, fwLastErr,
                 fwSettled, fwRun>>
  /\ UNCHANGED <<cacheVars, batchVars, logVars, unifyVars, sheetVars, priceVars, rowVars, ncVars, niraVars, runVars, legacyVars, currencyVars>>

\* The catch block of the loop: lastErr = err, then the break or the wait.
FwCatch(err) ==
  /\ fwLastErr' = err
  /\ IF IsLastAttempt(fwAttempt, fwRetries)
     THEN /\ fwPc' = "rejected"
          /\ fwSettled' = err
          /\ fwRun' = "failed"
     ELSE /\ fwPc' = "backoff"
          /\ UNCHANGED <<fwSettled, fwRun>>
  /\ UNCHANGED <<fwReq, fwAttempt>>

\* The fetch settles: an ok response is returned, a response that is not ok
\* and a rejection are caught; with an aborted signal it rejects.
FwSettle ==
  /\ fwPc = "inflight"
  /\ \E res \in IF fwSignal /\ fwAborted THEN {AbortError(fwAttempt)}
                ELSE {OkResponse(fwAttempt), HttpError(fwAttempt), NetworkError(fwAttempt)} :
       /\ fwCalls' = [fwCalls EXCEPT ![Len(fwCalls)].outcome = res]
       /\ IF ResOk(res)
          THEN /\ fwSettled' = res
               /\ UNCHANGED <<fwLastErr, fwAttempt>>
               /\ IF fwReq < MaxRequests
                  THEN /\ fwPc' = "call"
                       /\ UNCHANGED <<fwRun, fwReq>>
                  ELSE /\ fwPc' = "returned"
                       /\ fwRun' = "returned"
                       /\ UNCHANGED fwReq
          ELSE FwCatch(res)
  /\ UNCHANGED <<fwRetries, fwSignal, fwAborted, fwAbortAt>>
  /\ UNCHANGED <<cacheVars, batchVars, logVars, unifyVars, sheetVars, priceVars, rowVars, ncVars, niraVars, runVars, legacyVars, currencyVars>>

\* await delay(backoffMs * 2^attempt, signal).catch(() => { throw err }):
\* the timer fires and the loop goes on, or the signal is aborted and the
\* error of the attempt is thrown.
FwDelay ==
  /\ fwPc = "backoff"
  /\ IF DelayAborted(fwSignal, fwAborted)
     THEN /\ fwPc' = "rejected"
          /\ fwSettled' = fwLastErr
          /\ fwRun' = "failed"
          /\ UNCHANGED fwAttempt
     ELSE /\ fwAttempt' = fwAttempt + 1
          /\ fwPc' = "loop"
          /\ UNCHANGED <<fwSettled, fwRun>>
  /\ UNCHANGED <<fwRetries, fwSignal, fwAborted, fwAbortAt, fwReq, fwCalls, fwLastErr>>
  /\ UNCHANGED <<cacheVars, batchVars, logVars, unifyVars, sheetVars, priceVars, rowVars, ncVars, niraVars, runVars, legacyVars, currencyVars>>

\* The caller aborts the signal it gave to the run.
FwAbort ==
  /\ fwSignal
  /\ ~fwAborted
  /\ fwAborted' = TRUE
  /\ fwAbortAt' = [pc |-> fwPc, req |-> fwReq, calls |-> Len(fwCalls)]
  /\ UNCHANGED <<fwRetries, fwSignal, fwReq, fwAttempt, fwPc, fwCalls, fwLastErr, fwSettled,
                 fwRun>>
  /\ UNCHANGED <<cacheVars, batchVars, logVars, unifyVars, sheetVars, priceVars, rowVars, ncVars, niraVars, runVars, legacyVars, currencyVars>>

FwInit ==
  /\ fwRetries \in (0 - 1)..MaxRetries
  /\ fwSignal \in BOOLEAN
  /\ fwAborted = FALSE
  /\ fwAbortAt = [pc |-> "none", req |-> 0, calls |-> 0]
  /\ fwReq = 0
  /\ fwAttempt = 0
  /\ fwPc = "call"
  /\ fwCalls = <<>>
  /\ fwLastErr = NoError
  /\ fwSettled = NoError
  /\ fwRun = "running"

InitFetch ==
  CacheIdle /\ BatchIdle /\ LogIdle /\ UnifyIdle /\ SheetIdle /\ PriceIdle /\ RowIdle /\ NcIdle /\ NiraIdle /\ RunIdle /\ FwInit /\ LegacyIdle /\ CurrencyIdle

FwNext ==
  \/ FwCall
  \/ FwLoop
  \/ FwFetch
  \/ FwSettle
  \/ FwDelay
  \/ FwAbort

SpecFetch == InitFetch /\ [][FwNext]_vars

\* The event loop runs what is ready: a timer fires, a fetch settles with a
\* response or an error, a continuation runs.
FwProgress == FwCall \/ FwLoop \/ FwFetch \/ FwSettle \/ FwDelay

SpecFetchLive == SpecFetch /\ WF_vars(FwProgress)

\* The fetch calls of the fetchWithRetry in progress that have settled.
SettledCalls == {i \in 1..Len(fwCalls) : fwCalls[i].outcome # NoError}

\* C19: fetchWithRetry with retries r makes at most r + 1 fetch calls; an
\* ok response ends it, returned, with no call after it; when r + 1 calls
\* have failed it rejects with the error of the last.
C19_BoundedAttemptsLastError ==
  /\ Len(fwCalls) <= Max(fwRetries + 1, 0)
  /\ \A i \in 1..(Len(fwCalls) - 1) : fwCalls[i].outcome.kind \in {"http", "network", "abort"}
  /\ \A i \in SettledCalls :
       fwCalls[i].outcome.kind = "ok"
         => /\ i = Len(fwCalls)
            /\ fwPc \in {"call", "returned"}
            /\ fwSettled = fwCalls[i].outcome
  /\ fwPc = "returned" => Len(fwCalls) >= 1 /\ fwCalls[Len(fwCalls)].outcome.kind = "ok"
  /\ (Len(fwCalls) = fwRetries + 1 /\ Len(fwCalls) >= 1
        /\ fwCalls[Len(fwCalls)].outcome.kind \in {"http", "network", "abort"})
       => /\ fwPc = "rejected"
          /\ fwRun = "failed"
          /\ fwSettled = fwCalls[Len(fwCalls)].outcome

\* All the calls the option allows were made, each failed in its own way,
\* and fetchWithRetry has rejected.
C19_Witness ==
  /\ fwRetries = MaxRetries
  /\ Len(fwCalls) = MaxRetries + 1
  /\ fwCalls[1].outcome.kind = "http"
  /\ fwCalls[Len(fwCalls)].outcome.kind = "network"
  /\ fwPc = "rejected"
  /\ ~fwAborted

\* The signal was aborted before a request or during a backoff wait.
AbortedBeforeOrBetween == fwAborted /\ fwAbortAt.pc \in {"call", "loop", "fetch", "backoff"}

\* The fetch calls made since the abort: those of a fetchWithRetry called
\* after it, or the later ones of the fetchWithRetry it came upon.
CallsAfterAbort ==
  IF fwAbortAt.pc = "call"
  THEN IF fwReq > fwAbortAt.req THEN 1..Len(fwCalls) ELSE {}
  ELSE (fwAbortAt.calls + 1)..Len(fwCalls)

-----------------------------------------------------------------------------
(***************************************************************************)
(* convertLegacyDataset (pricing.ts): a legacy dataset is the sequence of  *)
(* its (tld, entry) pairs, an entry the sequence of its (key, value)       *)
(* pairs, both in insertion order; keys are sequences of characters.       *)
(***************************************************************************)

\* The values of a legacy entry: a number, an object of operation prices,
\* null.
LegacyNumber(n) == [kind |-> "number", n |-> n, ops |-> <<>>]
LegacyObject(ops) == [kind |-> "object", n |-> 0, ops |-> ops]
LegacyNull == [kind |-> "null", n |-> 0, ops |-> <<>>]

\* '-price'
PriceSuffix == <<"-", "p", "r", "i", "c", "e">>

\* Keys of legacy entries.
KeyMaxYears == <<"m", "a", "x", "Y", "e", "a", "r", "s">>
KeyRegularPrice == <<"r", "e", "g", "u", "l", "a", "r">> \o PriceSuffix
KeyMemberPrice == <<"m", "e", "m", "b", "e", "r">> \o PriceSuffix
KeyPricelist == <<"p", "r", "i", "c", "e", "l", "i", "s", "t">>

\* key.endsWith('-price')
EndsWithPrice(key) ==
  /\ Len(key) >= Len(PriceSuffix)
  /\ SubSeq(key, Len(key) - Len(PriceSuffix) + 1, Len(key)) = PriceSuffix

\* key.replace(/-price$/, '')
BandId(key) ==
  IF EndsWithPrice(key) THEN SubSeq(key, 1, Len(key) - Len(PriceSuffix)) ELSE key

\* key.endsWith('-price') && value && typeof value === 'object'
IsBandValue(key, value) == EndsWithPrice(key) /\ value.kind = "object"

\* The bands pushed for the pairs of an entry from the k-th on.
RECURSIVE LegacyBands(_, _)
LegacyBands(entry, k) ==
  IF k > Len(entry) THEN <<>>
  ELSE (IF IsBandValue(entry[k].key, entry[k].value)
        THEN <<[id |-> BandId(entry[k].key), operations |-> entry[k].value.ops]>>
        ELSE <<>>)
       \o LegacyBands(entry, k + 1)

\* entry.maxYears
LegacyMaxYears(entry) ==
  IF \E k \in 1..Len(entry) : entry[k].key = KeyMaxYears
  THEN [defined |-> TRUE,
        n |-> entry[CHOOSE k \in 1..Len(entry) : entry[k].key = KeyMaxYears].value.n]
  ELSE [defined |-> FALSE, n |-> 0]

\* One turn of the loop over Object.entries(data).
ConvertEntry ==
  /\ lgPc = "entries"
  /\ lgIdx < Len(lgData)
  /\ lgIdx' = lgIdx + 1
  /\ LET tld == lgData[lgIdx + 1].tld
         entry == lgData[lgIdx + 1].entry
         bands == LegacyBands(entry, 1)
     IN lgItems' = IF bands = <<>> THEN lgItems
                   ELSE Append(lgItems, [tld |-> tld, maxYears |-> LegacyMaxYears(entry),
                                         bands |-> bands])
  /\ UNCHANGED <<lgData, lgPc>>
  /\ UNCHANGED <<cacheVars, batchVars, logVars, unifyVars, sheetVars, priceVars, rowVars, ncVars, niraVars, runVars, fwVars, currencyVars>>

\* convertLegacyDataset returns the pricelist with the items.
ConvertReturn ==
  /\ lgPc = "entries"
  /\ lgIdx = Len(lgData)
  /\ lgPc' = "returned"
  /\ UNCHANGED <<lgData, lgIdx, lgItems>>
  /\ UNCHANGED <<cacheVars, batchVars, logVars, unifyVars, sheetVars, priceVars, rowVars, ncVars, niraVars, runVars, fwVars, currencyVars>>

\* The entries the generators write: maxYears and two band maps, either of
\* which can be empty; and entries with a band missing, null, or under a key
\* that does not end in '-price'.
LegacyEntries ==
  {<<[key |-> KeyMaxYears, value |-> LegacyNumber(1)]>> \o regular \o member :
     regular \in {<<>>,
                  <<[key |-> KeyRegularPrice, value |-> LegacyObject(<<>>)]>>,
                  <<[key |-> KeyRegularPrice, value |-> LegacyObject("create" :> 9)]>>,
                  <<[key |-> KeyPricelist, value |-> LegacyObject("create" :> 9)]>>},
     member \in {<<>>,
                 <<[key |-> KeyMemberPrice, value |-> LegacyObject(<<>>)]>>,
                 <<[key |-> KeyMemberPrice, value |-> LegacyObject("create" :> 8)]>>,
                 <<[key |-> KeyMemberPrice, value |-> LegacyNull]>>}}

\* Datasets of up to two TLDs.
LegacyDatasets ==
  {<<>>}
    \cup {<<[tld |-> TextCom, entry |-> e]>> : e \in LegacyEntries}
    \cup {<<[tld |-> TextCom, entry |-> e], [tld |-> TextNet, entry |-> f]>> :
            e \in LegacyEntries, f \in LegacyEntries}

LegacyInit ==
  /\ lgData \in LegacyDatasets
  /\ lgIdx = 0
  /\ lgItems = <<>>
  /\ lgPc = "entries"

InitLegacy ==
  CacheIdle /\ BatchIdle /\ LogIdle /\ UnifyIdle /\ SheetIdle /\ PriceIdle /\ RowIdle /\ NcIdle /\ NiraIdle /\ RunIdle /\ FwIdle /\ LegacyInit /\ CurrencyIdle

LegacyNext ==
  \/ ConvertEntry
  \/ ConvertReturn

SpecLegacy == InitLegacy /\ [][LegacyNext]_vars

\* Every item has a band, and every band an operation price.
BandsFilled(list) ==
  \A k \in 1..Len(list) :
    /\ Len(list[k].bands) >= 1
    /\ \A b \in 1..Len(list[k].bands) : DOMAIN list[k].bands[b].operations # {}

\* C25: in the items of OpenproviderRegistrar.map, of NamecheapRegistrar.map
\* and of convertLegacyDataset, every item has at least one band and every
\* band at least one operation price (so a TLD with no price in any band is
\* not among the items).
C25_ItemsHaveFilledBands ==
  /\ BandsFilled(items)
  /\ (ncImpl = "registrar" => BandsFilled(ncOut))
  /\ BandsFilled(lgItems)


-----------------------------------------------------------------------------
(***************************************************************************)
(* The unification engine with currencies (the second generateUnifiedList  *)
(* and generateCheapestOpRows of generators/unified.js).  A JavaScript     *)
(* object is the sequence of its (key, value) entries in insertion order;  *)
(* keys and strings are sequences of characters.                           *)
(***************************************************************************)

\* JavaScript values: a string, a number, an object.
Str(text) == [kind |-> "string", text |-> text, n |-> 0, entries |-> <<>>]
Num(n) == [kind |-> "number", text |-> <<>>, n |-> n, entries |-> <<>>]
Obj(entries) == [kind |-> "object", text |-> <<>>, n |-> 0, entries |-> entries]
Entry(key, value) == [key |-> key, value |-> value]

\* The keys the engine writes and reads.
KeyProvider == <<"p", "r", "o", "v", "i", "d", "e", "r">>
KeyTld == <<"t", "l", "d">>
KeyCurrency == <<"c", "u", "r", "r", "e", "n", "c", "y">>
KeyCurrencies == <<"c", "u", "r", "r", "e", "n", "c", "i", "e", "s">>
KeyAmount == <<"a", "m", "o", "u", "n", "t">>
KeyCreate == <<"c", "r", "e", "a", "t", "e">>
KeyRenew == <<"r", "e", "n", "e", "w">>
TextUSD == <<"U", "S", "D">>

\* obj[key]: the entries of obj under key (none or one)
EntriesAt(obj, key) == SelectSeq(obj.entries, LAMBDA e : e.key = key)

\* Object.keys(obj).sort() with the values: the entries in ascending key order
RECURSIVE SortByKey(_)
SortByKey(entries) ==
  IF Len(entries) <= 1 THEN entries
  ELSE LET sorted == SortByKey(SubSeq(entries, 1, Len(entries) - 1))
           x == entries[Len(entries)]
           after == {k \in 1..Len(sorted) : TextLess(x.key, sorted[k].key)}
           at == IF after = {} THEN Len(sorted) + 1
                 ELSE CHOOSE k \in after : \A j \in after : k <= j
       IN SubSeq(sorted, 1, at - 1) \o <<x>> \o SubSeq(sorted, at, Len(sorted))

\* sortObjectKeys
RECURSIVE SortObjectKeys(_)
SortObjectKeys(value) ==
  IF value.kind # "object" THEN value
  ELSE Obj(SortByKey([i \in 1..Len(value.entries) |->
                        Entry(value.entries[i].key, SortObjectKeys(value.entries[i].value))]))

\* normalizeRegularPriceMap: the finite values, keys sorted
NormalizeRegularPriceObject(map) ==
  IF map.kind # "object" THEN Obj(<<>>)
  ELSE SortObjectKeys(Obj(SelectSeq(map.entries,
                                    LAMBDA e : e.value.kind = "number" /\ IsFinite(e.value.n))))

\* cheapestMetric
CheapestMetricOf(regularMap) ==
  LET create == EntriesAt(regularMap, KeyCreate)
      finite == {x \in {regularMap.entries[i].value.n : i \in 1..Len(regularMap.entries)} :
                   IsFinite(x)}
  IN IF create # <<>> /\ IsFinite(create[1].value.n) THEN create[1].value.n
     ELSE IF finite = {} THEN PositiveInfinity
     ELSE CHOOSE x \in finite : \A y \in finite : x <= y

\* deriveBaseCurrency: the trimmed, upper-cased meta.currency, <<>> for null
DeriveBaseCurrency(provResult) == ToUpperCase(Trim(provResult.currency))

\* /^[A-Z]{3}$/.test(maybeCurrency)
IsCurrencyCode(key) ==
  Len(key) = 3 /\ \A i \in 1..3 : \E k \in 1..Len(UpperCase) : UpperCase[k] = key[i]

\* result.data[tld], currencyMap[tld]: the entries for tld (none or one)
TldEntries(data, tld) == SelectSeq(data, LAMBDA e : e.tld = tld)

\* collectCurrencyRegularPriceMaps: from the k-th key of the result on
RECURSIVE CollectCurrencyRegularPriceMaps(_, _, _)
CollectCurrencyRegularPriceMaps(provResult, tld, k) ==
  IF k > Len(provResult.extras) THEN <<>>
  ELSE LET rest == CollectCurrencyRegularPriceMaps(provResult, tld, k + 1)
           found == TldEntries(provResult.extras[k].data, tld)
           regular == IF found = <<>> THEN Obj(<<>>)
                      ELSE NormalizeRegularPriceObject(found[1].regular)
       IN IF ~IsCurrencyCode(provResult.extras[k].code) \/ regular.entries = <<>> THEN rest
          ELSE <<Entry(provResult.extras[k].code, Obj(<<Entry(KeyRegularPrice, regular)>>))>>
                 \o rest

\* The candidates of one provider, from the i-th entry of its data on.
RECURSIVE CurrencyCandidates(_, _)
CurrencyCandidates(provResult, i) ==
  IF i > Len(provResult.data) THEN <<>>
  ELSE LET regular == NormalizeRegularPriceObject(provResult.data[i].regular)
           rest == CurrencyCandidates(provResult, i + 1)
       IN IF regular.entries = <<>> THEN rest
          ELSE <<[provider |-> provResult.provider, tld |-> provResult.data[i].tld,
                  regular |-> regular,
                  currency |-> DeriveBaseCurrency(provResult),
                  currencies |-> CollectCurrencyRegularPriceMaps(provResult, provResult.data[i].tld, 1)]>>
                 \o rest

\* collectCandidatesByTld: every candidate, provider after provider in the
\* order of `include`.
RECURSIVE CollectCandidatesByTld(_, _, _)
CollectCandidatesByTld(res, include, i) ==
  IF i > Len(include) THEN <<>>
  ELSE LET found == SelectSeq(res, LAMBDA r : r.provider = include[i])
       IN (IF found = <<>> THEN <<>> ELSE CurrencyCandidates(found[1], 1))
            \o CollectCandidatesByTld(res, include, i + 1)

\* { provider, tld, 'regular-price': regular } with currency and currencies
\* added when there are any
CandidateObject(cand) ==
  Obj(<<Entry(KeyProvider, Str(cand.provider)), Entry(KeyTld, Str(cand.tld)),
        Entry(KeyRegularPrice, cand.regular)>>
      \o (IF cand.currency # <<>> THEN <<Entry(KeyCurrency, Str(cand.currency))>> ELSE <<>>)
      \o (IF cand.currencies # <<>> THEN <<Entry(KeyCurrencies, Obj(cand.currencies))>>
          ELSE <<>>))

\* The selection loop of generateUnifiedList over the candidates of one TLD.
RECURSIVE SelectBestCandidate(_, _, _)
SelectBestCandidate(options, i, best) ==
  IF i > Len(options) THEN best
  ELSE LET metric == CheapestMetricOf(options[i].regular)
           bestMetric == CheapestMetricOf(best.regular)
       IN IF metric < bestMetric
             \/ (metric = bestMetric /\ TextLess(options[i].provider, best.provider))
          THEN SelectBestCandidate(options, i + 1, options[i])
          ELSE SelectBestCandidate(options, i + 1, best)

\* a.tld, a.provider, a.currency of an object
FieldText(obj, key) == EntriesAt(obj, key)[1].value.text

\* The comparator of selected.sort: by tld, then by provider.
UnifiedBefore(a, b) ==
  IF FieldText(a, KeyTld) = FieldText(b, KeyTld)
  THEN TextLess(FieldText(a, KeyProvider), FieldText(b, KeyProvider))
  ELSE TextLess(FieldText(a, KeyTld), FieldText(b, KeyTld))

\* The comparator of rows.sort: by tld, then currency, then provider.
RowObjectBefore(a, b) ==
  IF FieldText(a, KeyTld) # FieldText(b, KeyTld)
  THEN TextLess(FieldText(a, KeyTld), FieldText(b, KeyTld))
  ELSE IF FieldText(a, KeyCurrency) # FieldText(b, KeyCurrency)
  THEN TextLess(FieldText(a, KeyCurrency), FieldText(b, KeyCurrency))
  ELSE TextLess(FieldText(a, KeyProvider), FieldText(b, KeyProvider))

\* Array.prototype.sort (stable) under one of the two comparators.
RECURSIVE SortObjects(_, _)
SortObjects(s, byRow) ==
  IF Len(s) <= 1 THEN s
  ELSE LET sorted == SortObjects(SubSeq(s, 1, Len(s) - 1), byRow)
           x == s[Len(s)]
           after == {k \in 1..Len(sorted) :
                       IF byRow THEN RowObjectBefore(x, sorted[k])
                       ELSE UnifiedBefore(x, sorted[k])}
           at == IF after = {} THEN Len(sorted) + 1
                 ELSE CHOOSE k \in after : \A j \in after : k <= j
       IN SubSeq(sorted, 1, at - 1) \o <<x>> \o SubSeq(sorted, at, Len(sorted))

\* generateUnifiedList, with currencies
GenerateUnifiedObjects(res, provs) ==
  LET cands == CollectCandidatesByTld(res, Include(res, provs), 1)
      tlds == TldKeys(cands, 1, <<>>)
      selected == [k \in 1..Len(tlds) |->
                     LET options == OptionsOf(cands, tlds[k])
                     IN SortObjectKeys(CandidateObject(
                          SelectBestCandidate(options, 2, options[1])))]
  IN SortObjects(selected, FALSE)

\* Number(map?.[op])
OpPriceOf(regularMap, op) ==
  IF EntriesAt(regularMap, op) = <<>> THEN NaN ELSE EntriesAt(regularMap, op)[1].value.n

\* The first loop of generateCheapestOpRows over the candidates of one TLD;
\* best is empty (null) or holds the best candidate so far.
RECURSIVE BestCandidateForOp(_, _, _, _)
BestCandidateForOp(list, op, i, best) ==
  IF i > Len(list) THEN best
  ELSE LET price == OpPriceOf(list[i].regular, op)
           bestPrice == IF best = <<>> THEN PositiveInfinity
                        ELSE OpPriceOf(best[1].regular, op)
           bestProvider == IF best = <<>> THEN <<>> ELSE best[1].provider
       IN IF ~IsFinite(price) THEN BestCandidateForOp(list, op, i + 1, best)
          ELSE IF price < bestPrice
                  \/ (price = bestPrice /\ TextLess(list[i].provider, bestProvider))
               THEN BestCandidateForOp(list, op, i + 1, <<list[i]>>)
               ELSE BestCandidateForOp(list, op, i + 1, best)

\* The finite prices of op in the currencies of the candidates, in the order
\* the second loop meets them: candidate i from its j-th currency on.
RECURSIVE CurrencyQuotes(_, _, _, _)
CurrencyQuotes(list, op, i, j) ==
  IF i > Len(list) THEN <<>>
  ELSE IF j > Len(list[i].currencies) THEN CurrencyQuotes(list, op, i + 1, 1)
  ELSE LET e == list[i].currencies[j]
           price == OpPriceOf(EntriesAt(e.value, KeyRegularPrice)[1].value, op)
       IN (IF IsFinite(price)
           THEN <<[candidate |-> list[i], code |-> e.key, price |-> price]>>
           ELSE <<>>)
          \o CurrencyQuotes(list, op, i, j + 1)

\* byCurrency after the quotes from the k-th on are offered to it.
RECURSIVE ByCurrency(_, _, _)
ByCurrency(quotes, k, held) ==
  IF k > Len(quotes) THEN held
  ELSE LET q == quotes[k]
       IN IF \/ q.code \notin DOMAIN held
             \/ q.price < held[q.code].price
             \/ /\ q.price = held[q.code].price
                /\ TextLess(q.candidate.provider, held[q.code].candidate.provider)
          THEN ByCurrency(quotes, k + 1, (q.code :> q) @@ held)
          ELSE ByCurrency(quotes, k + 1, held)

\* { tld, provider, currency, amount }
RowObject(tld, provider, currency, amount) ==
  Obj(<<Entry(KeyTld, Str(tld)), Entry(KeyProvider, Str(provider)),
        Entry(KeyCurrency, Str(currency)), Entry(KeyAmount, Num(amount))>>)

\* The rows pushed for one TLD: the base row, then one row per other
\* currency in ascending order of its code.
RowsOfTld(list, tld, op) ==
  LET best == BestCandidateForOp(list, op, 1, <<>>)
      baseCurrency == IF best # <<>> /\ best[1].currency # <<>> THEN best[1].currency
                      ELSE TextUSD
      byCurrency == ByCurrency(CurrencyQuotes(list, op, 1, 1), 1, <<>>)
      codes == SortedKeys(DOMAIN byCurrency \ {ToUpperCase(baseCurrency)})
  IN (IF best = <<>> THEN <<>>
      ELSE <<RowObject(tld, best[1].provider, baseCurrency, OpPriceOf(best[1].regular, op))>>)
     \o [k \in 1..Len(codes) |->
           RowObject(tld, byCurrency[codes[k]].candidate.provider, codes[k],
                     byCurrency[codes[k]].price)]

\* The rows pushed for the TLDs from the k-th on.
RECURSIVE CurrencyRowsFrom(_, _, _, _)
CurrencyRowsFrom(cands, tlds, op, k) ==
  IF k > Len(tlds) THEN <<>>
  ELSE RowsOfTld(OptionsOf(cands, tlds[k]), tlds[k], op)
         \o CurrencyRowsFrom(cands, tlds, op, k + 1)

\* generateCheapestOpRows, with currencies
GenerateCheapestOpObjects(res, op, provs) ==
  LET cands == CollectCandidatesByTld(res, Include(res, provs), 1)
  IN SortObjects(CurrencyRowsFrom(cands, TldKeys(cands, 1, <<>>), op, 1), TRUE)

\* The unified step over results that carry currencies.
BuildUnifiedObjects ==
  /\ mcPc = "ready"
  /\ mcPc' = "built"
  /\ mcUnified' = GenerateUnifiedObjects(mcResults, mcProviders)
  /\ mcCreateRows' = GenerateCheapestOpObjects(mcResults, KeyCreate, mcProviders)
  /\ mcRenewRows' = GenerateCheapestOpObjects(mcResults, KeyRenew, mcProviders)
  /\ UNCHANGED <<mcResults, mcProviders>>
  /\ UNCHANGED <<cacheVars, batchVars, logVars, unifyVars, sheetVars, priceVars, rowVars, ncVars, niraVars, runVars, fwVars, legacyVars>>

\* Inputs: two providers, two TLDs, prices that tie, a missing create, a
\* price that is not a number, and regular maps written with their keys out
\* of order.
ProviderA == <<"a">>
ProviderB == <<"b">>
TextNGN == <<"N", "G", "N">>
TextEUR == <<"E", "U", "R">>
TextUsdLower == <<"u", "s", "d">>
TextNgnLower == <<"n", "g", "n">>
PricedTld(tld, entries) == [tld |-> tld, regular |-> Obj(entries)]
ComPricings ==
  {PricedTld(TextCom, <<Entry(KeyCreate, Num(5))>>),
   PricedTld(TextCom, <<Entry(KeyRenew, Num(5)), Entry(KeyCreate, Num(9))>>),
   PricedTld(TextCom, <<Entry(KeyRenew, Num(5))>>),
   PricedTld(TextCom, <<Entry(KeyCreate, Num(NaN))>>)}
NetPricing == PricedTld(TextNet, <<Entry(KeyCreate, Num(5))>>)
DataOfA ==
  {<<>>, <<NetPricing>>} \cup {<<c>> : c \in ComPricings}
    \cup {<<c, NetPricing>> : c \in ComPricings}
DataOfB ==
  {<<>>,
   <<PricedTld(TextCom, <<Entry(KeyCreate, Num(5))>>)>>,
   <<NetPricing,
     PricedTld(TextCom, <<Entry(KeyRenew, Num(5)), Entry(KeyCreate, Num(9))>>)>>}
NgnPrices ==
  [code |-> TextNGN,
   data |-> <<PricedTld(TextCom, <<Entry(KeyRenew, Num(9)),
                                   Entry(KeyCreate, Num(7))>>)>>]
EurPrices ==
  [code |-> TextEUR, data |-> <<PricedTld(TextCom, <<Entry(KeyCreate, Num(7))>>)>>]
LowerCasePrices ==
  [code |-> TextNgnLower, data |-> <<PricedTld(TextCom, <<Entry(KeyCreate, Num(5))>>)>>]
ExtrasOfA == {<<>>, <<NgnPrices, EurPrices>>, <<LowerCasePrices>>}
ExtrasOfB == {<<>>, <<NgnPrices>>}
ResultsOfA ==
  {[provider |-> ProviderA, currency |-> c, data |-> d, extras |-> x] :
     c \in {<<>>, TextUsdLower, TextEUR}, d \in DataOfA, x \in ExtrasOfA}
ResultsOfB ==
  {[provider |-> ProviderB, currency |-> c, data |-> d, extras |-> x] :
     c \in {<<>>, TextEUR}, d \in DataOfB, x \in ExtrasOfB}
ProviderLists == {<<>>, <<ProviderA>>, <<ProviderA, ProviderB>>, <<ProviderB, ProviderA>>}

CurrencyInit ==
  /\ mcResults \in UNION {{<<a, b>>, <<b, a>>} : a \in ResultsOfA, b \in ResultsOfB}
  /\ mcProviders \in ProviderLists
  /\ mcPc = "ready"
  /\ mcUnified = <<>>
  /\ mcCreateRows = <<>>
  /\ mcRenewRows = <<>>

InitCurrency ==
  CacheIdle /\ BatchIdle /\ LogIdle /\ UnifyIdle /\ SheetIdle /\ PriceIdle /\ RowIdle /\ NcIdle /\ NiraIdle /\ RunIdle /\ FwIdle /\ LegacyIdle /\ CurrencyInit

CurrencyNext == BuildUnifiedObjects

SpecCurrency == InitCurrency /\ [][CurrencyNext]_vars

\* Every ordering of a sequence.
RECURSIVE Orderings(_)
Orderings(s) ==
  IF s = <<>> THEN {<<>>}
  ELSE UNION {{<<s[i]>> \o rest :
                 rest \in Orderings(SubSeq(s, 1, i - 1) \o SubSeq(s, i + 1, Len(s)))} :
              i \in 1..Len(s)}

\* The same price data written in another insertion order: the TLDs of one
\* provider's data and of each of its currencies reordered.
RECURSIVE EachDataReordered(_)
EachDataReordered(extras) ==
  IF extras = <<>> THEN {<<>>}
  ELSE {<<[code |-> extras[1].code, data |-> d]>> \o rest :
          d \in Orderings(extras[1].data), rest \in EachDataReordered(Tail(extras))}
ExtrasReordered(extras) == UNION {EachDataReordered(x) : x \in Orderings(extras)}
ResultReordered(r) ==
  {[provider |-> r.provider, currency |-> r.currency, data |-> d, extras |-> x] :
     d \in Orderings(r.data), x \in ExtrasReordered(r.extras)}
ResultsReordered(res) ==
  UNION {{<<a, b>>, <<b, a>>} : a \in ResultReordered(res[1]), b \in ResultReordered(res[2])}

\* The keys of an object, and of every object in it, ascend.
RECURSIVE KeysAscend(_)
KeysAscend(value) ==
  value.kind = "object" =>
    /\ \A i \in 1..(Len(value.entries) - 1) :
         TextLess(value.entries[i].key, value.entries[i + 1].key)
    /\ \A i \in 1..Len(value.entries) : KeysAscend(value.entries[i].value)
AllKeysAscend(list) == \A i \in 1..Len(list) : KeysAscend(list[i])

\* The outputs for the same price data in every other order.
SameForEveryOrder ==
  \A res \in ResultsReordered(mcResults) : \A provs \in Orderings(mcProviders) :
    /\ GenerateUnifiedObjects(res, provs) = mcUnified
    /\ GenerateCheapestOpObjects(res, KeyCreate, provs) = mcCreateRows
    /\ GenerateCheapestOpObjects(res, KeyRenew, provs) = mcRenewRows

\* C28: generateUnifiedList and generateCheapestOpRows return the same output
\* for every permutation of the providers list and every insertion order of
\* the providers and TLDs in the results, and every object they return has
\* its keys in lexicographic order.
C28_OrderFreeAndKeysSorted ==
  mcPc = "built" =>
    /\ SameForEveryOrder
    /\ AllKeysAscend(mcUnified)
    /\ AllKeysAscend(mcCreateRows)
    /\ AllKeysAscend(mcRenewRows)

====
